---- MODULE Spec2Model ----
(***************************************************************************)
(* Search-and-summary orchestration core of persona-pilot-service:        *)
(* the summary cache with its reaction state machine (ElasticService.      *)
(* update_summary_cache, DataService.update_user_reaction) and the search  *)
(* handler (DataService.search_insights_v2), also while documents and      *)
(* indices are deleted (ElasticService.delete_insights); the extraction    *)
(* of hashtags (ElasticService.extract_hashtags); the job history and the  *)
(* sync task (AsyncJobHandler, DataService.process_sync); the filter of    *)
(* drafts by requester (ElasticService.es_filter_query).                   *)
(*                                                                         *)
(* Requests run concurrently on an asyncio loop; a request yields only at  *)
(* an await of a collaborator call, so every action below is the code      *)
(* between two awaits together with the store operation awaited.           *)
(***************************************************************************)
EXTENDS Integers, Sequences, FiniteSets, TLC

VARIABLES
    cache,      \* the ai_summary_cache index: [exists, docs: id -> document]
    insights,   \* the searched insights index: [exists, ndocs, docs: id -> document]
    pc,         \* per request slot: the await the request is suspended at
    req,        \* per request slot: the request and its local variables
    clock,      \* wall clock read by datetime.now / time.time
    nops,       \* number of requests started so far
    llm_calls,  \* number of calls made to LLMService.summarize
    job_history \* AsyncJobHandler.job_history: job id -> job

vars == <<cache, insights, pc, req, clock, nops, llm_calls, job_history>>

----------------------------------------------------------------------------
(* Bounds of the model *)

\* requests started in one behaviour
MaxOps == 4

\* two request slots: the races of the reaction path are between two requests
Procs == {1, 2}

----------------------------------------------------------------------------
(* Identities.  A reactor has a cdsid (JWT claim sub) and a display name   *)
(* (JWT claim fordDisplayName); the two are different strings.             *)

Users == {"U1", "U2"}

DisplayName(u) == CASE u = "U1" -> "Ann" [] u = "U2" -> "Bob" [] OTHER -> "ANN"

\* str.strip().lower() on the strings that occur in the model
StripLower(s) ==
    CASE s = "Ann" -> "ann"
      [] s = "ANN" -> "ann"
      [] s = "Bob" -> "bob"
      [] s = "U1" -> "u1"
      [] s = "U2" -> "u2"
      [] s = "U3" -> "u3"
      [] OTHER -> s

\* str.strip().upper() and str.strip().capitalize() of
\* InsightsSearchRequest.to_instance, on the strings that occur in the model
StripUpper(s) ==
    CASE s = "u1" -> "U1"
      [] s = "u2" -> "U2"
      [] OTHER -> s

StripCapitalize(s) ==
    CASE s = "ANN" -> "Ann"
      [] s = "ann" -> "Ann"
      [] s = "bob" -> "Bob"
      [] OTHER -> s

Reactions == {"like", "dislike", "reload", "love"}

\* a key that does not follow the clock
MintKey_Fixed(now) == 1001

\* int(time.time() * 1000): a key minted when the clock reads now
MintKey(now) == 1000 + now

\* key of the cache entry that exists when the service starts
CacheKey == 1001

\* key of a second cache entry, cached for a search restricted to a region
RegionalKey == 1002

\* EsIndexPrefix.<prefix>.name + "_" + properties.env
CacheIndexName == "ai_summary_cache_dev"
InsightsIndexName == "insights_dev"

\* index.strip().startswith(EsIndexPrefix.ai_summary_cache.name)
IsCacheIndex(index) == index = CacheIndexName

NoDoc == [none |-> TRUE]

Range(s) == {s[i] : i \in 1..Len(s)}

\* list.remove(x): drops the first occurrence of x
RECURSIVE Remove(_, _)
Remove(s, x) ==
    IF s = <<>> THEN <<>>
    ELSE IF Head(s) = x THEN Tail(s)
    ELSE <<Head(s)>> \o Remove(Tail(s), x)

----------------------------------------------------------------------------
(* ElasticService *)

Embed(topic) == <<"vec", topic>>

new_ai_summary_cache_document(key, topic, user_query, ai_summary, cdsid, regions, now) ==
    [key |-> key,
     topic |-> topic,
     user_query |-> user_query,
     ai_summary_cache |-> ai_summary,
     regions |-> regions,
     total_likes |-> 0,
     total_dislikes |-> 0,
     liked_by_cdsids |-> <<>>,
     disliked_by_cdsids |-> <<>>,
     last_liked_by |-> "",
     last_disliked_by |-> "",
     updated_by_cdsid |-> cdsid,
     updated_datetime_utc |-> now,
     topic_vector |-> Embed(topic)]

\* async_es.get(..., source_excludes=["topic_vector"])
SourceExcludes(doc) == [f \in (DOMAIN doc) \ {"topic_vector"} |-> doc[f]]

\* async_es.update(body={"doc": document, "doc_as_upsert": True})
EsUpdate(docs, id, document) ==
    IF id \in DOMAIN docs
    THEN [docs EXCEPT ![id] =
            [f \in (DOMAIN docs[id]) \cup (DOMAIN document) |->
                IF f \in DOMAIN document THEN document[f] ELSE docs[id][f]]]
    ELSE [k \in (DOMAIN docs) \cup {id} |-> IF k = id THEN document ELSE docs[k]]

\* like that forgets to take the reactor out of disliked_by_cdsids
LikeBranch_KeepDisliked(document, cdsid, name) ==
    LET d1 == IF cdsid \notin Range(document.liked_by_cdsids)
              THEN [document EXCEPT !.total_likes = @ + 1,
                                    !.liked_by_cdsids = Append(@, cdsid)]
              ELSE document
    IN  [d1 EXCEPT !.last_liked_by = name]

\* like that appends the reactor without counting it
LikeBranch_NoIncrement(document, cdsid, name) ==
    LET d1 == IF cdsid \notin Range(document.liked_by_cdsids)
              THEN [document EXCEPT !.liked_by_cdsids = Append(@, cdsid)]
              ELSE document
        d2 == IF cdsid \in Range(d1.disliked_by_cdsids)
              THEN [d1 EXCEPT !.total_dislikes = @ - 1,
                              !.disliked_by_cdsids = Remove(@, cdsid)]
              ELSE d1
    IN  [d2 EXCEPT !.last_liked_by = name]

\* like without the membership test
LikeBranch_AlwaysIncrement(document, cdsid, name) ==
    LET d1 == [document EXCEPT !.total_likes = @ + 1,
                               !.liked_by_cdsids = Append(@, cdsid)]
        d2 == IF cdsid \in Range(d1.disliked_by_cdsids)
              THEN [d1 EXCEPT !.total_dislikes = @ - 1,
                              !.disliked_by_cdsids = Remove(@, cdsid)]
              ELSE d1
    IN  [d2 EXCEPT !.last_liked_by = name]

LikeBranch(document, cdsid, name) ==
    LET d1 == IF cdsid \notin Range(document.liked_by_cdsids)
              THEN [document EXCEPT !.total_likes = @ + 1,
                                    !.liked_by_cdsids = Append(@, cdsid)]
              ELSE document
        d2 == IF cdsid \in Range(d1.disliked_by_cdsids)
              THEN [d1 EXCEPT !.total_dislikes = @ - 1,
                              !.disliked_by_cdsids = Remove(@, cdsid)]
              ELSE d1
        d3 == IF StripLower(name) = StripLower(d2.last_disliked_by)
              THEN [d2 EXCEPT !.last_disliked_by =
                        IF d2.disliked_by_cdsids # <<>>
                        THEN d2.disliked_by_cdsids[Len(d2.disliked_by_cdsids)]
                        ELSE ""]
              ELSE d2
    IN  [d3 EXCEPT !.last_liked_by = name]

DislikeBranch(document, cdsid, name) ==
    LET d1 == IF cdsid \notin Range(document.disliked_by_cdsids)
              THEN [document EXCEPT !.total_dislikes = @ + 1,
                                    !.disliked_by_cdsids = Append(@, cdsid)]
              ELSE document
        d2 == IF cdsid \in Range(d1.liked_by_cdsids)
              THEN [d1 EXCEPT !.total_likes = @ - 1,
                              !.liked_by_cdsids = Remove(@, cdsid)]
              ELSE d1
        d3 == IF StripLower(name) = StripLower(d2.last_liked_by)
              THEN [d2 EXCEPT !.last_liked_by =
                        IF d2.liked_by_cdsids # <<>>
                        THEN d2.liked_by_cdsids[Len(d2.liked_by_cdsids)]
                        ELSE ""]
              ELSE d2
    IN  [d3 EXCEPT !.last_disliked_by = name]

\* reload that leaves the last-actor fields in place
ReloadBranch_KeepLast(document) ==
    [document EXCEPT !.total_likes = 0,
                     !.total_dislikes = 0,
                     !.liked_by_cdsids = <<>>,
                     !.disliked_by_cdsids = <<>>]

ReloadBranch(document) ==
    [document EXCEPT !.total_likes = 0,
                     !.total_dislikes = 0,
                     !.liked_by_cdsids = <<>>,
                     !.disliked_by_cdsids = <<>>,
                     !.last_liked_by = "",
                     !.last_disliked_by = ""]

\* dispatch whose last branch is a plain else instead of elif reload
ValidReaction_ElseReload(user_reaction) == TRUE

ValidReaction(user_reaction) == user_reaction \in {"like", "dislike", "reload"}

\* The document update_summary_cache hands to async_es.update
\* (defined for a valid reaction; any other value raises 400 before it).
MutatedDocument(document, user_reaction, cdsid, name, now) ==
    LET d == CASE user_reaction = "like" -> LikeBranch(document, cdsid, name)
               [] user_reaction = "dislike" -> DislikeBranch(document, cdsid, name)
               [] OTHER -> ReloadBranch(document)
    IN  [d EXCEPT !.updated_by_cdsid = cdsid, !.updated_datetime_utc = now]

----------------------------------------------------------------------------
(* Request slots *)

IdleReq == [op |-> "none"]

\* self.job_history = {}
NoJobs == <<>>

Init ==
    /\ cache = [exists |-> TRUE,
                docs |-> [k \in {CacheKey} |->
                    new_ai_summary_cache_document(CacheKey, "topic", "query", "summary0",
                                                  "U1", <<>>, 0)]]
    /\ insights = [exists |-> TRUE, ndocs |-> 0, docs |-> <<>>]
    /\ pc = [p \in Procs |-> "idle"]
    /\ req = [p \in Procs |-> IdleReq]
    /\ clock = 1
    /\ nops = 0
    /\ llm_calls = 0
    /\ job_history = NoJobs

(* PUT /index/{index}/summary/reactions/{key}/v1 -> update_user_reaction:  *)
(* a slot whose previous response has been sent accepts the request and    *)
(* get_document_by_id is awaited.                                          *)
update_user_reaction(p) ==
    /\ pc[p] \in {"idle", "done"}
    /\ nops < MaxOps
    /\ \E u \in Users, r \in Reactions, i \in {CacheIndexName, InsightsIndexName} :
         /\ req' = [req EXCEPT ![p] =
                    [op |-> "react", index |-> i, key |-> CacheKey, user_reaction |-> r,
                     cdsid |-> u, logged_in_user_name |-> DisplayName(u),
                     base |-> NoDoc, document |-> NoDoc,
                     status |-> IF IsCacheIndex(i) THEN 0 ELSE 404,
                     response |-> NoDoc, writes |-> 0]]
         /\ pc' = [pc EXCEPT ![p] = IF IsCacheIndex(i) THEN "get" ELSE "done"]
    /\ nops' = nops + 1
    /\ UNCHANGED <<cache, insights, clock, llm_calls, job_history>>

(* get_document_by_id returns (or raises 404) *)
get_document_by_id(p) ==
    /\ pc[p] = "get"
    /\ IF cache.exists /\ req[p].key \in DOMAIN cache.docs
       THEN /\ req' = [req EXCEPT ![p].base = SourceExcludes(cache.docs[req[p].key]),
                                  ![p].document = SourceExcludes(cache.docs[req[p].key])]
            /\ pc' = [pc EXCEPT ![p] = "update"]
       ELSE /\ req' = [req EXCEPT ![p].status = 404]
            /\ pc' = [pc EXCEPT ![p] = "done"]
    /\ UNCHANGED <<cache, insights, clock, nops, llm_calls, job_history>>

(* update_summary_cache up to and including async_es.update *)
update_summary_cache(p) ==
    /\ pc[p] = "update"
    /\ IF ValidReaction(req[p].user_reaction)
       THEN LET doc == MutatedDocument(req[p].document, req[p].user_reaction,
                                       req[p].cdsid, req[p].logged_in_user_name, clock)
            IN  /\ cache' = [cache EXCEPT !.docs = EsUpdate(@, req[p].key, doc)]
                /\ req' = [req EXCEPT ![p].document = doc, ![p].writes = @ + 1]
                /\ clock' = clock + 1
                /\ pc' = [pc EXCEPT ![p] = "reget"]
       ELSE /\ req' = [req EXCEPT ![p].status = 400]
            /\ pc' = [pc EXCEPT ![p] = "done"]
            /\ UNCHANGED <<cache, clock>>
    /\ UNCHANGED <<insights, nops, llm_calls, job_history>>

(* the trailing get_document_by_id of update_summary_cache and the 200 response *)
return_summary(p) ==
    /\ pc[p] = "reget"
    /\ IF cache.exists /\ req[p].key \in DOMAIN cache.docs
       THEN req' = [req EXCEPT ![p].status = 200,
                               ![p].response = SourceExcludes(cache.docs[req[p].key])]
       ELSE req' = [req EXCEPT ![p].status = 404]
    /\ pc' = [pc EXCEPT ![p] = "done"]
    /\ UNCHANGED <<cache, insights, clock, nops, llm_calls, job_history>>

Next ==
    \E p \in Procs :
        \/ update_user_reaction(p)
        \/ get_document_by_id(p)
        \/ update_summary_cache(p)
        \/ return_summary(p)

Spec == Init /\ [][Next]_vars

----------------------------------------------------------------------------
(* DataService.search_insights_v2 *)

\* searches started in one behaviour
MaxSearches == 1

\* documents held by the insights index when the service starts
MaxDocs == 2

\* the slot that runs searches
SearchProcs == {1}

\* the requester of the searches; its identity reaches the audit stamp only
Requesters == {"U1"}

\* relevance cutoff of the re-ranking: result['_score'] >= 14.
\* Scores are kept in tenths (139 is 13.9).
ScoreCutoff == 14

Scores == {139, 140, 200}

AtLeastCutoff(score) == score >= ScoreCutoff * 10

max_result_window == 10000

\* page_size is validated to 24..30 and page_no to 1..10000
\* (VectorSearchRequest); 25 * 400 is exactly the result window and
\* 24 * 417 is the first multiple of 24 beyond it
PageSizes == {24, 25}

PageNos == {1, 2, 400, 417}

\* sizes of the insights index when the service starts: a few documents,
\* one document more than a page of 24, or a full result window
IndexSizes == (0..MaxDocs) \cup {25, max_result_window}

ApologySummary ==
    "I'm sorry, but there are no search results for your query. If you have any other queries or need assistance with different information, feel free to ask."

\* texts the summarization collaborator may return
Summaries == {"summaryA"}

EmptyObject == [empty |-> TRUE]

Min(a, b) == IF a < b THEN a ELSE b

\* _source of the insight document with the given id
InsightSource(id) ==
    [key |-> id, title |-> <<"title", id>>, description |-> "description",
     authors |-> <<"U1">>, regions |-> <<"NA">>, finding |-> "finding"]

\* sequences of n scores in the order of the sort clause (_score desc)
RECURSIVE ScoreLists(_)
ScoreLists(n) ==
    IF n = 0 THEN {<<>>}
    ELSE {Append(l, s) : l \in ScoreLists(n - 1), s \in Scores} 

Descending(l) == \A i \in 1..(Len(l) - 1) : l[i] >= l[i + 1]

\* score lists of a page of n hits: every descending list for a short page;
\* for a long page all hits below the cutoff, the first hit above it, or all
\* hits above it
PageScores(n) ==
    IF n <= MaxDocs
    THEN {l \in ScoreLists(n) : Descending(l)}
    ELSE {[i \in 1..n |-> IF i <= k THEN 200 ELSE 139] : k \in {0, 1, n}}

\* hits.total.value of a search on an index of n insight documents: no
\* document matches, one does, or all do
HitTotals(n) == {h \in {0, 1, n} : h <= n}

\* cutoff written with > instead of >=
RECURSIVE CutOff_Strict(_)
CutOff_Strict(results) ==
    IF results = <<>> THEN <<>>
    ELSE IF Head(results)._score > ScoreCutoff * 10
         THEN <<Head(results)>> \o CutOff_Strict(Tail(results))
         ELSE CutOff_Strict(Tail(results))

\* [result for result in response['results'] if result['_score'] >= 14]
RECURSIVE CutOff(_)
CutOff(results) ==
    IF results = <<>> THEN <<>>
    ELSE IF AtLeastCutoff(Head(results)._score)
         THEN <<Head(results)>> \o CutOff(Tail(results))
         ELSE CutOff(Tail(results))

\* Insights(search_results, total_search_count).to_dict()
InsightsToDict(insight_records, count) ==
    [insights |-> insight_records, total_records |-> count]

\* get_total_count of the insights index: the insight documents and whatever
\* else has been indexed into it
InsightsCount == insights.ndocs + Cardinality(DOMAIN insights.docs)

\* sequences without repetition over a set of ids (hit lists of the cache query)
RECURSIVE Orderings(_)
Orderings(S) ==
    {<<>>} \cup UNION {{<<x>> \o l : l \in Orderings(S \ {x})} : x \in S}

\* the request ends with an exception that the handlers of main.py turn into
\* a response of the given status
FailWith(p, r, status, error) ==
    /\ req' = [req EXCEPT ![p] = [r EXCEPT !.status = status, !.error = error]]
    /\ pc' = [pc EXCEPT ![p] = "done"]

Fail(p, status, error) == FailWith(p, req[p], status, error)

\* query builder whose size is always the page size
get_es_query_FullPage(page_no, page_size, total_docs) ==
    LET from_param == (page_no - 1) * page_size
    IN  IF from_param + page_size > max_result_window
        THEN [status |-> 400, es_query |-> EmptyObject]
        ELSE IF from_param >= total_docs
        THEN [status |-> 404, es_query |-> EmptyObject]
        ELSE [status |-> 0,
              es_query |-> [from |-> from_param, size |-> page_size]]

\* query builder without the end-of-index test
get_es_query_NoEnd(page_no, page_size, total_docs) ==
    LET from_param == (page_no - 1) * page_size
    IN  IF from_param + page_size > max_result_window
        THEN [status |-> 400, es_query |-> EmptyObject]
        ELSE [status |-> 0,
              es_query |-> [from |-> from_param,
                            size |-> Min(page_size, total_docs - from_param)]]

\* query builder that tests the offset alone against the result window
get_es_query_OffsetOnly(page_no, page_size, total_docs) ==
    LET from_param == (page_no - 1) * page_size
    IN  IF from_param > max_result_window
        THEN [status |-> 400, es_query |-> EmptyObject]
        ELSE IF from_param >= total_docs
        THEN [status |-> 404, es_query |-> EmptyObject]
        ELSE [status |-> 0,
              es_query |-> [from |-> from_param,
                            size |-> Min(page_size, total_docs - from_param)]]

\* ElasticService.get_es_query: the InsightException it raises (status 400 or
\* 404) or the from and size of the query it builds (status 0)
get_es_query(page_no, page_size, total_docs) ==
    LET from_param == (page_no - 1) * page_size
    IN  IF from_param + page_size > max_result_window
        THEN [status |-> 400, es_query |-> EmptyObject]
        ELSE IF from_param >= total_docs
        THEN [status |-> 404, es_query |-> EmptyObject]
        ELSE [status |-> 0,
              es_query |-> [from |-> from_param,
                            size |-> Min(page_size, total_docs - from_param)]]

\* An answer of llm_service.analyse_user_queries is kept as the sequence of
\* its words (maximal runs of word characters); None is the empty sequence.
NoAnswer == <<>>

Answers == {<<"yes">>, <<"Yes", "same", "topic">>, <<"no">>, <<"unsure">>,
            <<"yesterday">>, NoAnswer}

\* str.lower() on the words that occur in the model (re.IGNORECASE)
Lower(w) == CASE w = "Yes" -> "yes" [] w = "YES" -> "yes" [] OTHER -> w

\* test for the letters y, e, s anywhere in the answer
Affirmative_Substring(llm_response) ==
    \E i \in 1..Len(llm_response) : Lower(llm_response[i]) \in {"yes", "yesterday"}

\* llm_response and re.search(r'\byes\b', str(llm_response).strip(), re.IGNORECASE):
\* \byes\b matches exactly when one of the words is yes
Affirmative(llm_response) ==
    /\ llm_response # NoAnswer
    /\ \E i \in 1..Len(llm_response) : Lower(llm_response[i]) = "yes"

\* cache lookup that keeps every hit whatever the request
RestrictToGeneric_Never(regions, results) == results

\* if _request.regions is None or _request.regions == []:
\*     response['results'] = [r for r in response['results']
\*                            if r['_source'].get('regions') == []]
RestrictToGeneric(regions, results) ==
    IF regions = <<>>
    THEN SelectSeq(results, LAMBDA r : r._source.regions = <<>>)
    ELSE results

\* response that carries the summary on every page
ResponseSummary_AnyPage(page_no, ai_summary_cache) == ai_summary_cache

\* a response that never carries the summary
ResponseSummary_Dropped(page_no, ai_summary_cache) == EmptyObject

\* the summary member of the response: ai_summary_cache['summary'] on page 1
\* and {} on every other page
ResponseSummary(page_no, ai_summary_cache) ==
    IF page_no = 1 THEN ai_summary_cache ELSE EmptyObject

InitSearch ==
    /\ \E e \in BOOLEAN, n \in IndexSizes :
         insights = [exists |-> e, ndocs |-> IF e THEN n ELSE 0, docs |-> <<>>]
    /\ \E c \in {"absent", "empty", "generic", "regional", "both"} :
         cache = [exists |-> c # "absent",
                  docs |-> IF c \in {"absent", "empty"} THEN <<>>
                           ELSE [k \in IF c = "both" THEN {CacheKey, RegionalKey}
                                       ELSE {CacheKey} |->
                                   IF k = CacheKey
                                   THEN [new_ai_summary_cache_document(CacheKey, "cruise",
                                            "blue cruise", "summary0", "U1",
                                            IF c = "regional" THEN <<"NA">> ELSE <<>>, 0)
                                         EXCEPT !.total_likes = 1,
                                                !.liked_by_cdsids = <<"U2">>,
                                                !.last_liked_by = "Bob"]
                                   ELSE new_ai_summary_cache_document(RegionalKey,
                                            "cruise", "blue cruise", "summary1", "U1",
                                            <<"NA">>, 1)]]
    /\ pc = [p \in Procs |-> "idle"]
    /\ req = [p \in Procs |-> IdleReq]
    /\ clock = 3
    /\ nops = 0
    /\ llm_calls = 0
    /\ job_history = NoJobs

(* PUT /index/{index}/search/v1: the request is accepted and                *)
(* llm_service.extract_keywords returns (a keyword string, nothing, or it    *)
(* raises).                                                                  *)
search_insights_v2(p) ==
    /\ pc[p] \in {"idle", "done"}
    /\ nops < MaxSearches
    /\ nops' = nops + 1
    /\ \E u \in Requesters, regions \in {<<>>, <<"NA">>}, page_no \in PageNos,
          page_size \in PageSizes, id \in {<<>>, <<CacheKey>>},
          keywords_query \in {"", "cruise", "error"} :
         /\ req' = [req EXCEPT ![p] =
                [op |-> "search", index |-> InsightsIndexName,
                 cdsid |-> StripUpper(u),
                 logged_in_user_name |-> StripCapitalize(DisplayName(u)),
                 original_query |-> "blue cruise",
                 query |-> IF keywords_query \in {"", "error"} THEN "blue cruise"
                           ELSE keywords_query,
                 regions |-> regions, page_no |-> page_no, page_size |-> page_size,
                 ai_summary_cache_id |-> id,
                 index_exists |-> FALSE, total_docs |-> 0,
                 es_query |-> EmptyObject, hits |-> <<>>, total_hits |-> 0,
                 search_results |-> <<>>, total_search_count |-> 0, ai_summary |-> "", key |-> 0,
                 base |-> NoDoc, document |-> NoDoc, status |-> IF keywords_query = "error" THEN 500 ELSE 0,
                 error |-> IF keywords_query = "error" THEN "InsightException" ELSE "",
                 response |-> EmptyObject, writes |-> 0, summarize_calls |-> 0,
                 summarize_raised |-> FALSE,
                 documents_to_summarize |-> <<>>, search_calls |-> 0,
                 cache_hits |-> <<>>, candidate |-> <<>>,
                 llm_response |-> NoAnswer]]
         /\ pc' = [pc EXCEPT ![p] = IF keywords_query = "error" THEN "done" ELSE "search"]
    /\ UNCHANGED <<cache, insights, clock, llm_calls, job_history>>

\* the continuation of search_insights_v2 after the hits have arrived
\* (lines 158-191 up to the next await)
AfterSearch(p, r0, es_query, hits, total_hits) ==
    LET results == [i \in 1..Len(hits) |->
                       [_id |-> hits[i]._id, _score |-> hits[i]._score,
                        _source |-> hits[i]._source]]
        search_results == CutOff(results)
        r1 == [r0 EXCEPT !.es_query = es_query, !.hits = hits,
                         !.total_hits = total_hits,
                         !.search_results = search_results,
                             !.total_search_count = total_hits]
    IN  IF total_hits > 0
        THEN IF req[p].page_no = 1
             THEN /\ req' = [req EXCEPT ![p] = [r1 EXCEPT !.index = CacheIndexName]]
                  /\ pc' = [pc EXCEPT ![p] =
                        IF req[p].ai_summary_cache_id # <<>> THEN "summarize"
                        ELSE "cache_lookup"]
             ELSE /\ req' = [req EXCEPT ![p] =
                        [r1 EXCEPT !.status = 200,
                                   !.response = [summary |->
                                           ResponseSummary(req[p].page_no, EmptyObject),
                                       search_results |->
                                           InsightsToDict(search_results, total_hits)]]]
                  /\ pc' = [pc EXCEPT ![p] = "done"]
        ELSE /\ req' = [req EXCEPT ![p] = [r1 EXCEPT !.ai_summary = ApologySummary]]
             /\ pc' = [pc EXCEPT ![p] = "cache"]

(* elastic_service.get_documents_from_search_insights on the searched index *)
get_documents_from_search_insights(p) ==
    /\ pc[p] = "search"
    /\ LET total_docs == InsightsCount
           built == get_es_query(req[p].page_no, req[p].page_size, total_docs)
           r0 == [req[p] EXCEPT !.index_exists = insights.exists,
                                !.total_docs = IF insights.exists THEN total_docs ELSE 0]
       IN  IF ~insights.exists
           THEN FailWith(p, r0, 404, "InsightException")
           ELSE IF total_docs = 0
           THEN FailWith(p, r0, 404, "KeyError")   \* response = {}; response['results']
           ELSE IF built.status # 0
           THEN FailWith(p, r0, built.status, "InsightException")
           ELSE LET es_query == built.es_query
                    from_param == es_query.from
                IN  \E total_hits \in HitTotals(insights.ndocs) :
                      LET n == IF total_hits > from_param /\ es_query.size > 0
                               THEN Min(es_query.size, total_hits - from_param) ELSE 0
                      IN  \E scores \in PageScores(n) :
                            AfterSearch(p, [r0 EXCEPT !.search_calls = @ + 1], es_query,
                                  [i \in 1..n |->
                                      [_id |-> from_param + i, _score |-> scores[i],
                                       _source |-> InsightSource(from_param + i)]],
                                  total_hits)
    /\ UNCHANGED <<cache, insights, clock, nops, llm_calls, job_history>>

\* the index a name designates
IndexOf(name) == IF name = CacheIndexName THEN cache ELSE insights

\* the index after create_index_if_not_exists and a write of its documents
WriteIndex(name, docs) ==
    IF name = CacheIndexName
    THEN /\ cache' = [cache EXCEPT !.exists = TRUE, !.docs = docs]
         /\ UNCHANGED insights
    ELSE /\ insights' = [insights EXCEPT !.exists = TRUE, !.docs = docs]
         /\ UNCHANGED cache

\* async_es.index(index, document, id): the document replaces what id held
EsIndex(docs, id, document) ==
    [k \in (DOMAIN docs) \cup {id} |-> IF k = id THEN document ELSE docs[k]]

\* {field: doc[field] for field in fields_to_summarize if field in doc}
FilteredDoc(doc) ==
    [f \in (DOMAIN doc) \cap {"title", "description", "authors", "regions"} |-> doc[f]]

summarizing_length == 10

\* every result is put to the summarizer
DocumentsToSummarize_All(search_results) ==
    [i \in 1..Len(search_results) |-> FilteredDoc(search_results[i]._source)]

\* documents_to_summarize of get_insights_summary
DocumentsToSummarize(search_results) ==
    [i \in 1..Min(summarizing_length, Len(search_results)) |->
        FilteredDoc(search_results[i]._source)]

(* get_ai_summary_from_cache up to the return of check_index_exists *)
get_ai_summary_from_cache(p) ==
    /\ pc[p] = "cache_lookup"
    /\ pc' = [pc EXCEPT ![p] = IF cache.exists THEN "cache_search" ELSE "summarize"]
    /\ UNCHANGED <<cache, insights, req, clock, nops, llm_calls, job_history>>

(* get_ai_summary_from_cache, the index having been seen to exist: the cache *)
(* index is searched for the effective query and the candidate is put to     *)
(* llm_service.analyse_user_queries                                          *)
search_ai_summary_cache(p) ==
    /\ pc[p] = "cache_search"
    /\ IF ~cache.exists
       THEN Fail(p, 500, "AppException")   \* InsightException(404) is no NotFoundError
       ELSE IF DOMAIN cache.docs = {}
       THEN /\ pc' = [pc EXCEPT ![p] = "summarize"]
            /\ UNCHANGED req
       ELSE LET candidates ==
                    {k \in DOMAIN cache.docs :
                        req[p].regions # <<>> =>
                            Range(cache.docs[k].regions) \cap Range(req[p].regions) # {}}
            IN  \E order \in Orderings(candidates) :
                  LET hits == [i \in 1..Len(order) |->
                                 [_id |-> order[i],
                                  _source |-> SourceExcludes(cache.docs[order[i]])]]
                      results == RestrictToGeneric(req[p].regions, hits)
                      r0 == [req[p] EXCEPT !.cache_hits = hits]
                  IN  IF Len(hits) = 0
                      THEN /\ pc' = [pc EXCEPT ![p] = "summarize"]
                           /\ UNCHANGED req
                      ELSE IF results = <<>>
                      THEN FailWith(p, r0, 500, "AppException")   \* response['results'][0]
                      ELSE \E llm_response \in Answers, raised \in BOOLEAN :
                             LET doc == results[1]._source
                                 r1 == [r0 EXCEPT !.llm_response = llm_response,
                                                  !.candidate = <<results[1]._id>>]
                             IN  IF raised
                                 THEN FailWith(p, [r0 EXCEPT !.candidate = <<results[1]._id>>],
                                               500, "AppException")
                                 ELSE IF Affirmative(llm_response)
                                 THEN /\ req' = [req EXCEPT ![p] = [r1 EXCEPT
                                            !.status = 200,
                                            !.key = results[1]._id,
                                            !.response =
                                                [summary |-> ResponseSummary(r1.page_no, doc),
                                                 search_results |->
                                                    InsightsToDict(r1.search_results,
                                                        r1.total_search_count)]]]
                                      /\ pc' = [pc EXCEPT ![p] = "done"]
                                 ELSE /\ req' = [req EXCEPT ![p] = r1]
                                      /\ pc' = [pc EXCEPT ![p] = "summarize"]
    /\ UNCHANGED <<cache, insights, clock, nops, llm_calls, job_history>>

(* get_insights_summary: llm_service.summarize returns a text, or raises and *)
(* the summary stays ""                                                       *)
get_insights_summary(p) ==
    /\ pc[p] = "summarize"
    /\ \E summary \in Summaries \cup {""} :
         req' = [req EXCEPT ![p].ai_summary = summary,
                            ![p].summarize_calls = @ + 1,
                            ![p].summarize_raised = (summary = ""),
                            ![p].documents_to_summarize =
                                DocumentsToSummarize(req[p].search_results)]
    /\ llm_calls' = llm_calls + 1
    /\ pc' = [pc EXCEPT ![p] = "cache"]
    /\ UNCHANGED <<cache, insights, clock, nops, job_history>>

(* cache_ai_summaries up to its first write or read of the document:        *)
(* without a key a new document is indexed under a key minted from the      *)
(* clock; with a key the existing document is fetched                        *)
cache_ai_summaries(p) ==
    /\ pc[p] = "cache"
    /\ LET name == req[p].index
           docs == IndexOf(name).docs
       IN  IF req[p].ai_summary_cache_id = <<>>
           THEN LET key == MintKey(clock)
                    doc == new_ai_summary_cache_document(key, req[p].query,
                              req[p].original_query, req[p].ai_summary,
                              req[p].cdsid, req[p].regions, clock)
                IN  /\ WriteIndex(name, EsIndex(docs, key, doc))
                    /\ req' = [req EXCEPT ![p].key = key, ![p].document = doc,
                                          ![p].writes = @ + 1]
                    /\ pc' = [pc EXCEPT ![p] = "cache_return"]
                    /\ clock' = clock + 1
           ELSE LET key == req[p].ai_summary_cache_id[1]
                IN  /\ WriteIndex(name, docs)
                    /\ IF key \in DOMAIN docs
                       THEN /\ req' = [req EXCEPT
                                  ![p].key = key,
                                  ![p].base = SourceExcludes(docs[key]),
                                  ![p].document =
                                      [SourceExcludes(docs[key]) EXCEPT
                                          !.ai_summary_cache = req[p].ai_summary]]
                            /\ pc' = [pc EXCEPT ![p] = "cache_update"]
                       ELSE Fail(p, 404,
                              \* an insight document has no 'topic'
                              IF name = InsightsIndexName /\ key \in 1..insights.ndocs
                              THEN "KeyError" ELSE "NotFoundError")
                    /\ UNCHANGED clock
    /\ UNCHANGED <<nops, llm_calls, job_history>>

\* a reload that stores a new document built from the request under the key
reload_summary_cache_NewDocument(p) ==
    /\ pc[p] = "cache_update"
    /\ LET name == req[p].index
           doc == new_ai_summary_cache_document(req[p].key, req[p].query,
                     req[p].original_query, req[p].ai_summary, req[p].cdsid,
                     req[p].regions, clock)
       IN  /\ WriteIndex(name, EsIndex(IndexOf(name).docs, req[p].key, doc))
           /\ req' = [req EXCEPT ![p].document = doc, ![p].writes = @ + 1]
    /\ clock' = clock + 1
    /\ pc' = [pc EXCEPT ![p] = "cache_return"]
    /\ UNCHANGED <<nops, llm_calls, job_history>>

(* cache_ai_summaries with a key: update_summary_cache(reload) writes *)
reload_summary_cache(p) ==
    /\ pc[p] = "cache_update"
    /\ LET name == req[p].index
           doc == MutatedDocument(req[p].document, "reload", req[p].cdsid,
                                  req[p].logged_in_user_name, clock)
       IN  /\ WriteIndex(name, EsUpdate(IndexOf(name).docs, req[p].key, doc))
           /\ req' = [req EXCEPT ![p].document = doc, ![p].writes = @ + 1]
    /\ clock' = clock + 1
    /\ pc' = [pc EXCEPT ![p] = "cache_return"]
    /\ UNCHANGED <<nops, llm_calls, job_history>>

(* the trailing get_document_by_id of cache_ai_summaries and the response   *)
(* built by search_insights_v2                                               *)
search_response(p) ==
    /\ pc[p] = "cache_return"
    /\ LET index == IndexOf(req[p].index)
       IN  IF index.exists /\ req[p].key \in DOMAIN index.docs
           THEN req' = [req EXCEPT
                    ![p].status = 200,
                    ![p].response =
                        [summary |-> ResponseSummary(req[p].page_no,
                                        SourceExcludes(index.docs[req[p].key])),
                         search_results |->
                            InsightsToDict(req[p].search_results,
                                           req[p].total_search_count)]]
           ELSE req' = [req EXCEPT ![p].status = 404, ![p].error = "NotFoundError"]
    /\ pc' = [pc EXCEPT ![p] = "done"]
    /\ UNCHANGED <<cache, insights, clock, nops, llm_calls, job_history>>

NextSearch ==
    \E p \in SearchProcs :
        \/ search_insights_v2(p)
        \/ get_documents_from_search_insights(p)
        \/ get_ai_summary_from_cache(p)
        \/ search_ai_summary_cache(p)
        \/ get_insights_summary(p)
        \/ cache_ai_summaries(p)
        \/ reload_summary_cache(p)
        \/ search_response(p)

SpecSearch == InitSearch /\ [][NextSearch]_vars

----------------------------------------------------------------------------
(* Searches while a reaction to a cached summary is served *)

\* most reactions that are made next to the searches
MaxReactions == 1

\* the slot that serves the reactions
ReactProcs == {2}

(* PUT /index/{index}/summary/reactions/{key}/v1 while a search may be in *)
(* progress                                                               *)
put_api_insights_index_summary_reactions_v1(p) ==
    /\ nops < MaxSearches + MaxReactions
    /\ update_user_reaction(p)

NextSearchReact ==
    \/ NextSearch
    \/ \E p \in ReactProcs :
          \/ put_api_insights_index_summary_reactions_v1(p)
          \/ get_document_by_id(p)
          \/ update_summary_cache(p)
          \/ return_summary(p)

SpecSearchReact == InitSearch /\ [][NextSearchReact]_vars

----------------------------------------------------------------------------
(* Searches while indices are deleted *)

\* most delete requests that are made
MaxDeletes == 2

\* the slot that serves the delete requests
DeleteProcs == {2}

\* the key query parameter is absent (None)
NoKey == <<>>

(* DELETE /index/{index}/v1: key = int(key) if key is not None else None,   *)
(* then delete_insights up to the answer of check_index_exists. The insights *)
(* are numbered 1..ndocs; of them only the last one is asked to be deleted.  *)
delete_api_insights__index___key__v1(p) ==
    /\ \/ pc[p] = "idle"
       \/ pc[p] = "done" /\ req[p].op = "delete" /\ req[p].deletes < MaxDeletes
    /\ \E index_name \in {CacheIndexName, InsightsIndexName},
          key \in {NoKey, <<0>>, <<CacheKey>>, <<insights.ndocs>>} :
         LET r == [op |-> "delete", index |-> index_name, key |-> key,
                   deletes |-> IF pc[p] = "idle" THEN 1 ELSE req[p].deletes + 1,
                   status |-> 0, error |-> ""]
         IN  IF IndexOf(index_name).exists
             THEN /\ req' = [req EXCEPT ![p] = r]
                  /\ pc' = [pc EXCEPT ![p] = "delete"]
             ELSE FailWith(p, r, 404, "InsightException")
    /\ UNCHANGED <<cache, insights, clock, nops, llm_calls, job_history>>

\* `if key:` of delete_insight: None and 0 are both falsy
Truthy(key) == key # NoKey /\ key[1] # 0

\* the index without its documents
Deleted(name) ==
    IF name = CacheIndexName
    THEN [exists |-> FALSE, docs |-> <<>>]
    ELSE [exists |-> FALSE, ndocs |-> 0, docs |-> <<>>]

\* async_es.delete(index, id): the index without the document id
EsDelete(index, id) ==
    IF id \in DOMAIN index.docs
    THEN [index EXCEPT !.docs = [k \in (DOMAIN index.docs) \ {id} |-> index.docs[k]]]
    ELSE [index EXCEPT !.ndocs = @ - 1]

\* the index holds a document with this id
HasDocument(name, index, id) ==
    \/ id \in DOMAIN index.docs
    \/ name = InsightsIndexName /\ index.ndocs > 0 /\ id = index.ndocs

(* delete_insight: with a truthy key async_es.delete removes that document  *)
(* (NotFoundError when it is not there), else indices.delete removes the     *)
(* index with its documents                                                  *)
delete_insights(p) ==
    /\ pc[p] = "delete"
    /\ LET name == req[p].index
           index == IndexOf(name)
           after == IF Truthy(req[p].key) THEN EsDelete(index, req[p].key[1])
                    ELSE Deleted(name)
       IN  IF ~index.exists
              \/ (Truthy(req[p].key) /\ ~HasDocument(name, index, req[p].key[1]))
           THEN /\ Fail(p, 404, "NotFoundError")
                /\ UNCHANGED <<cache, insights>>
           ELSE /\ IF name = CacheIndexName
                   THEN cache' = after /\ UNCHANGED insights
                   ELSE insights' = after /\ UNCHANGED cache
                /\ req' = [req EXCEPT ![p].status = 204]
                /\ pc' = [pc EXCEPT ![p] = "done"]
    /\ UNCHANGED <<clock, nops, llm_calls, job_history>>

NextDelete ==
    \/ NextSearch
    \/ \E p \in DeleteProcs :
          \/ delete_api_insights__index___key__v1(p)
          \/ delete_insights(p)

SpecDelete == InitSearch /\ [][NextDelete]_vars

----------------------------------------------------------------------------
(* Properties of the reaction state machine *)

Stored(k) == cache.docs[k]

\* slot p performs its async_es.update in this step
Writes(p) == pc[p] = "update" /\ pc'[p] = "reget"

\* slot p takes a step
Steps(p) == pc'[p] # pc[p]

Reacted(p, r) == req[p].op = "react" /\ req[p].user_reaction = r

HasWritten(p) == pc[p] \in {"reget", "done"} /\ req[p].op = "react" /\ req[p].writes = 1

\* C1: in every stored state of a cache entry no reactor identity is a member
\* of both liked_by and disliked_by.
C1_Exclusive ==
    \A k \in DOMAIN cache.docs :
        Range(Stored(k).liked_by_cdsids) \cap Range(Stored(k).disliked_by_cdsids) = {}

\* a reactor who had disliked has been moved to liked_by by a like
C1_Witness ==
    \E p \in Procs :
        /\ HasWritten(p) /\ Reacted(p, "like")
        /\ req[p].cdsid \in Range(req[p].base.disliked_by_cdsids)
        /\ req[p].cdsid \in Range(Stored(req[p].key).liked_by_cdsids)

\* C2: for a reactor in neither set, the write of a like has total_likes one
\* higher than the document read, the reactor appended to liked_by, and
\* total_dislikes and disliked_by as read; dislike is the mirror image.
C2_FirstReaction ==
    [][\A p \in Procs :
        LET b == req[p].document
            u == req[p].cdsid
            d == cache'.docs[req[p].key]
            neither == /\ u \notin Range(b.liked_by_cdsids)
                       /\ u \notin Range(b.disliked_by_cdsids)
        IN  /\ (Writes(p) /\ Reacted(p, "like") /\ neither) =>
                  /\ d.total_likes = b.total_likes + 1
                  /\ d.liked_by_cdsids = Append(b.liked_by_cdsids, u)
                  /\ d.total_dislikes = b.total_dislikes
                  /\ d.disliked_by_cdsids = b.disliked_by_cdsids
            /\ (Writes(p) /\ Reacted(p, "dislike") /\ neither) =>
                  /\ d.total_dislikes = b.total_dislikes + 1
                  /\ d.disliked_by_cdsids = Append(b.disliked_by_cdsids, u)
                  /\ d.total_likes = b.total_likes
                  /\ d.liked_by_cdsids = b.liked_by_cdsids
    ]_vars

\* a like by a reactor who was in neither set has been written
C2_Witness ==
    \E p \in Procs :
        /\ HasWritten(p) /\ Reacted(p, "like")
        /\ req[p].cdsid \notin Range(req[p].base.liked_by_cdsids)
        /\ req[p].cdsid \notin Range(req[p].base.disliked_by_cdsids)
        /\ req[p].base.total_likes = 1
        /\ req[p].document.total_likes = 2

\* C3: a like by a reactor who is already in liked_by (the state a first like
\* leaves) writes total_likes, total_dislikes, liked_by and disliked_by exactly
\* as read; the same for dislike.
C3_Idempotent ==
    [][\A p \in Procs :
        LET b == req[p].document
            u == req[p].cdsid
            d == cache'.docs[req[p].key]
            same == /\ d.total_likes = b.total_likes
                    /\ d.total_dislikes = b.total_dislikes
                    /\ d.liked_by_cdsids = b.liked_by_cdsids
                    /\ d.disliked_by_cdsids = b.disliked_by_cdsids
        IN  /\ (Writes(p) /\ Reacted(p, "like")
                  /\ u \in Range(b.liked_by_cdsids)) => same
            /\ (Writes(p) /\ Reacted(p, "dislike")
                  /\ u \in Range(b.disliked_by_cdsids)) => same
    ]_vars

\* the same reactor has liked twice in a row: the second like read the
\* document the first one stored
C3_Witness ==
    \E p \in Procs :
        /\ HasWritten(p) /\ Reacted(p, "like")
        /\ req[p].cdsid \in Range(req[p].base.liked_by_cdsids)
        /\ req[p].base.updated_by_cdsid = req[p].cdsid
        /\ req[p].base.last_liked_by = req[p].logged_in_user_name
        /\ req[p].document.total_likes = req[p].base.total_likes

\* C4: a like by a reactor who is in disliked_by persists, in the one write of
\* the operation, total_dislikes - 1, total_likes + 1, the reactor out of
\* disliked_by and in liked_by; every change of the stored entry is such a
\* single write, so no state with the reactor in both or in neither set is
\* persisted (and the mirror image for dislike).
C4_AtomicSwitch ==
    [][/\ \A p \in Procs :
            LET b == req[p].document
                u == req[p].cdsid
                d == cache'.docs[req[p].key]
            IN  /\ (Writes(p) /\ Reacted(p, "like")
                      /\ u \in Range(b.disliked_by_cdsids)
                      /\ u \notin Range(b.liked_by_cdsids)) =>
                      /\ d.total_dislikes = b.total_dislikes - 1
                      /\ d.total_likes = b.total_likes + 1
                      /\ d.disliked_by_cdsids = Remove(b.disliked_by_cdsids, u)
                      /\ u \notin Range(d.disliked_by_cdsids)
                      /\ d.liked_by_cdsids = Append(b.liked_by_cdsids, u)
                      /\ req'[p].writes = 1
                /\ (Writes(p) /\ Reacted(p, "dislike")
                      /\ u \in Range(b.liked_by_cdsids)
                      /\ u \notin Range(b.disliked_by_cdsids)) =>
                      /\ d.total_likes = b.total_likes - 1
                      /\ d.total_dislikes = b.total_dislikes + 1
                      /\ d.liked_by_cdsids = Remove(b.liked_by_cdsids, u)
                      /\ u \notin Range(d.liked_by_cdsids)
                      /\ d.disliked_by_cdsids = Append(b.disliked_by_cdsids, u)
                      /\ req'[p].writes = 1
       /\ (cache' # cache) => \E p \in Procs : Writes(p) /\ req[p].writes = 0
    ]_vars

\* a reactor has switched from dislike to like
C4_Witness ==
    \E p \in Procs :
        /\ HasWritten(p) /\ Reacted(p, "like")
        /\ req[p].cdsid \in Range(req[p].base.disliked_by_cdsids)
        /\ req[p].base.total_dislikes = 2
        /\ req[p].document.total_dislikes = 1
        /\ req[p].document.total_likes = 1

\* C5: whatever the document read, the write of a reload has total_likes = 0,
\* total_dislikes = 0, liked_by and disliked_by empty and last_liked_by and
\* last_disliked_by cleared.
C5_Reload ==
    [][\A p \in Procs :
        LET d == cache'.docs[req[p].key]
        IN  (Writes(p) /\ Reacted(p, "reload")) =>
                /\ d.total_likes = 0
                /\ d.total_dislikes = 0
                /\ d.liked_by_cdsids = <<>>
                /\ d.disliked_by_cdsids = <<>>
                /\ d.last_liked_by = ""
                /\ d.last_disliked_by = ""
    ]_vars

\* a reload has reset an entry that had a like, a dislike and both last actors
C5_Witness ==
    \E p \in Procs :
        /\ HasWritten(p) /\ Reacted(p, "reload")
        /\ req[p].base.total_likes = 1
        /\ req[p].base.total_dislikes = 1
        /\ req[p].base.last_liked_by # ""
        /\ req[p].base.last_disliked_by # ""
        /\ Stored(req[p].key).last_liked_by = ""
        /\ Stored(req[p].key).total_likes = 0

\* C6: a request whose reaction is not like, dislike or reload ends with a
\* 400-class status and no step it takes changes the cache index.
C6_InvalidReaction ==
    [][\A p \in Procs :
        (Steps(p) /\ req'[p].op = "react"
            /\ req'[p].user_reaction \notin {"like", "dislike", "reload"}) =>
            /\ cache' = cache
            /\ req'[p].writes = 0
            /\ pc'[p] # "reget"
            /\ (pc'[p] = "done" => req'[p].status \in 400..499)
    ]_vars

\* an invalid reaction has been rejected on an entry that holds reactions
C6_Witness ==
    \E p \in Procs :
        /\ pc[p] = "done" /\ Reacted(p, "love")
        /\ req[p].status = 400
        /\ req[p].base.total_likes = 1
        /\ SourceExcludes(Stored(req[p].key)) = req[p].base

\* the value v of a last-actor field records reactor u: by display name
\* (as a reaction stores it) or by identity (as a recomputation stores it)
Records(v, u) == v = u \/ StripLower(v) = StripLower(DisplayName(u))

LastOrEmpty(s) == IF s # <<>> THEN s[Len(s)] ELSE ""

\* C7: on like, if the reactor removed from disliked_by was the recorded
\* last_disliked_by, the write has last_disliked_by recomputed from the
\* remaining disliked set (empty when that set is empty), and last_liked_by is
\* the reactor's display name; dislike is the mirror image.
C7_LastActor ==
    [][\A p \in Procs :
        LET b == req[p].document
            u == req[p].cdsid
            d == cache'.docs[req[p].key]
        IN  /\ (Writes(p) /\ Reacted(p, "like")) =>
                  /\ d.last_liked_by = req[p].logged_in_user_name
                  /\ (u \in Range(b.disliked_by_cdsids) /\ Records(b.last_disliked_by, u))
                        => d.last_disliked_by = LastOrEmpty(Remove(b.disliked_by_cdsids, u))
            /\ (Writes(p) /\ Reacted(p, "dislike")) =>
                  /\ d.last_disliked_by = req[p].logged_in_user_name
                  /\ (u \in Range(b.liked_by_cdsids) /\ Records(b.last_liked_by, u))
                        => d.last_liked_by = LastOrEmpty(Remove(b.liked_by_cdsids, u))
    ]_vars

\* C8: when two likes by distinct reactors, neither in liked_by, read the same
\* document and both return 200, the entry as left by the later of the two
\* writes has total_likes one above the document read and liked_by extended by
\* the later writer only: the earlier like is lost.
C8_LostUpdate ==
    \A p, q \in Procs :
        (/\ p # q
         /\ pc[p] = "done" /\ pc[q] = "done"
         /\ Reacted(p, "like") /\ Reacted(q, "like")
         /\ req[p].status = 200 /\ req[q].status = 200
         /\ req[p].cdsid # req[q].cdsid
         /\ req[p].base = req[q].base
         /\ req[p].cdsid \notin Range(req[p].base.liked_by_cdsids)
         /\ req[q].cdsid \notin Range(req[q].base.liked_by_cdsids)
         /\ Stored(req[q].key).updated_datetime_utc = req[q].document.updated_datetime_utc)
        => /\ Stored(req[q].key).total_likes = req[q].base.total_likes + 1
           /\ Stored(req[q].key).liked_by_cdsids
                = Append(req[q].base.liked_by_cdsids, req[q].cdsid)
           /\ req[p].cdsid \notin Range(Stored(req[q].key).liked_by_cdsids)

\* both likes returned success on a fresh entry, yet one like is stored
C8_Witness ==
    \E p, q \in Procs :
        /\ p # q
        /\ pc[p] = "done" /\ pc[q] = "done"
        /\ Reacted(p, "like") /\ Reacted(q, "like")
        /\ req[p].status = 200 /\ req[q].status = 200
        /\ req[p].cdsid # req[q].cdsid
        /\ req[p].base = req[q].base
        /\ req[p].base.total_likes = 0
        /\ Stored(CacheKey).total_likes = 1
        /\ Stored(CacheKey).liked_by_cdsids = <<req[q].cdsid>>

----------------------------------------------------------------------------
(* Properties of the search handler *)

Searched(p) == pc[p] = "done" /\ req[p].op = "search"

\* C9: for every successful search, search_results.insights is the list of
\* the hits returned by the index with score >= 14, in the index's order, with
\* no hit below 14, and total_records is the total reported by the index.
C9_CutoffAndTotal ==
    \A p \in Procs :
        (Searched(p) /\ req[p].status = 200) =>
            LET out == req[p].response.search_results
                kept == SelectSeq(req[p].hits, LAMBDA h : h._score >= 140)
            IN  /\ Len(out.insights) = Len(kept)
                /\ \A i \in 1..Len(kept) :
                      /\ out.insights[i]._id = kept[i]._id
                      /\ out.insights[i]._score = kept[i]._score
                      /\ out.insights[i]._source = kept[i]._source
                /\ \A i \in 1..Len(out.insights) : out.insights[i]._score >= 140
                /\ out.total_records = req[p].total_hits

\* a successful search whose index reported two hits, scores 14.0 and 13.9,
\* returns the first only and total_records = 2
C9_Witness ==
    \E p \in Procs :
        /\ Searched(p) /\ req[p].status = 200
        /\ Len(req[p].hits) = 2
        /\ req[p].hits[1]._score = 140
        /\ req[p].hits[2]._score = 139
        /\ Len(req[p].response.search_results.insights) = 1
        /\ req[p].response.search_results.total_records = 2

\* C10: a search on an existing index that holds 0 documents returns
\* successfully with the fixed apology summary, an empty insights list and
\* total_records = 0, and the summarization collaborator is never called.
C10_EmptyIndex ==
    \A p \in Procs :
        (Searched(p) /\ req[p].index_exists /\ req[p].total_docs = 0) =>
            /\ req[p].status = 200
            /\ req[p].response.summary.ai_summary_cache = ApologySummary
            /\ req[p].response.search_results.insights = <<>>
            /\ req[p].response.search_results.total_records = 0
            /\ req[p].summarize_calls = 0

\* C11: whenever the list of hits left by the cutoff (score >= 14) is empty on
\* page 1 of a successful search, also when the index reports a positive
\* total, the response carries the fixed apology summary and the summarization
\* collaborator has not been called.
C11_EmptyAfterCutoff ==
    \A p \in Procs :
        (Searched(p) /\ req[p].status = 200 /\ req[p].page_no = 1
            /\ req[p].search_results = <<>>) =>
            /\ req[p].summarize_calls = 0
            /\ req[p].response.summary.ai_summary_cache = ApologySummary

\* slot p has entered summary resolution: the cache has been consulted, the
\* equivalence or the summarization collaborator has been asked, or the
\* request is suspended in one of these steps
Resolving(p) ==
    \/ pc[p] \in {"cache_lookup", "cache_search", "summarize"}
    \/ req[p].summarize_calls > 0
    \/ req[p].cache_hits # <<>>
    \/ req[p].llm_response # NoAnswer

Accepted(p) == req[p].op = "search" /\ req[p].search_calls = 1

\* C13: for every accepted page request on an index of total_docs documents
\* the query has from = (page_no - 1) * page_size and
\* size = min(page_size, total_docs - from), so that from + size <= total_docs
\* and size >= 1.
C13_FromAndSize ==
    \A p \in Procs :
        Accepted(p) =>
            LET from == (req[p].page_no - 1) * req[p].page_size
                left == req[p].total_docs - from
                q == req[p].es_query
            IN  /\ q.from = from
                /\ q.size = IF req[p].page_size <= left THEN req[p].page_size ELSE left
                /\ q.from + q.size <= req[p].total_docs
                /\ q.size >= 1

\* page 2 of an index of 25 documents has been queried with from = 24 and
\* size = 1, and the one document left has been returned
C13_Witness ==
    \E p \in Procs :
        /\ Accepted(p) /\ req[p].status = 200
        /\ req[p].page_no = 2 /\ req[p].page_size = 24
        /\ req[p].total_docs = 25
        /\ req[p].es_query.from = 24
        /\ req[p].es_query.size = 1
        /\ Len(req[p].hits) = 1

\* slot p asked for a page that starts at or after the end of a non-empty index
PastEnd(p) ==
    /\ req[p].op = "search"
    /\ req[p].index_exists /\ req[p].total_docs > 0
    /\ (req[p].page_no - 1) * req[p].page_size >= req[p].total_docs

\* C14 as stated: every page request on a non-empty index with
\* from = (page_no - 1) * page_size >= total_docs fails with 404 and no search
\* call is issued to the index.
C14_PastEnd ==
    \A p \in Procs :
        PastEnd(p) =>
            /\ pc[p] = "done"
            /\ req[p].status = 404
            /\ req[p].search_calls = 0

\* C14, amended: every page request on a non-empty index with
\* from >= total_docs and page_size * page_no <= 10000 fails with 404, one with
\* page_size * page_no > 10000 fails with 400, and in both cases no search call
\* is issued to the index.
C14_PastEndWithinWindow ==
    \A p \in Procs :
        PastEnd(p) =>
            /\ pc[p] = "done"
            /\ req[p].status =
                  IF req[p].page_size * req[p].page_no <= 10000 THEN 404 ELSE 400
            /\ req[p].search_calls = 0

\* page 2 of an index of 2 documents has been refused with 404 before any search
C14_Witness ==
    \E p \in Procs :
        /\ PastEnd(p) /\ pc[p] = "done"
        /\ req[p].page_no = 2 /\ req[p].page_size = 24
        /\ req[p].total_docs = 2
        /\ req[p].status = 404
        /\ req[p].error = "InsightException"
        /\ req[p].search_calls = 0

\* C15: a page request with page_size * page_no > 10000 that reaches the query
\* builder (the index exists and holds documents) fails with 400 and no search
\* call is issued to the index; a request with page_size * page_no <= 10000
\* never ends with 400.
C15_ResultWindow ==
    \A p \in Procs :
        req[p].op = "search" =>
            /\ (req[p].index_exists /\ req[p].total_docs > 0
                  /\ req[p].page_size * req[p].page_no > 10000) =>
                  /\ pc[p] = "done"
                  /\ req[p].status = 400
                  /\ req[p].search_calls = 0
            /\ (req[p].page_size * req[p].page_no <= 10000) => req[p].status # 400

\* page 417 of size 24 (24 * 417 = 10008) has been refused with 400 on an
\* index of 10000 documents, where from = 9984 is still inside the index
C15_Witness ==
    \E p \in Procs :
        /\ Searched(p)
        /\ req[p].page_no = 417 /\ req[p].page_size = 24
        /\ req[p].total_docs = 10000
        /\ req[p].status = 400
        /\ req[p].search_calls = 0
        /\ req[p].hits = <<>>

\* slot p runs a page-1 search that carries an explicit cache key
KeyedPageOne(p) ==
    /\ req[p].op = "search"
    /\ req[p].page_no = 1
    /\ req[p].ai_summary_cache_id # <<>>

\* C16: in a page-1 search with an explicit cache key, for which the index
\* reports results, the summary is regenerated by the summarization
\* collaborator and written into the cache entry with that key, with both
\* counters 0, both membership lists empty and both last-actor fields cleared;
\* no step of the request adds an entry to the cache or changes another entry.
C16_UpdateInPlace ==
    [][\A p \in Procs :
        KeyedPageOne(p) =>
            LET k == req[p].ai_summary_cache_id[1]
            IN  /\ Steps(p) =>
                      /\ DOMAIN cache'.docs = DOMAIN cache.docs
                      /\ \A j \in DOMAIN cache.docs :
                            j # k => cache'.docs[j] = cache.docs[j]
                /\ (Steps(p) /\ pc[p] = "cache_update"
                      /\ IsCacheIndex(req[p].index)) =>
                      /\ req[p].summarize_calls = 1
                      /\ cache'.docs[k].ai_summary_cache = req[p].ai_summary
                      /\ cache'.docs[k].total_likes = 0
                      /\ cache'.docs[k].total_dislikes = 0
                      /\ cache'.docs[k].liked_by_cdsids = <<>>
                      /\ cache'.docs[k].disliked_by_cdsids = <<>>
                      /\ cache'.docs[k].last_liked_by = ""
                      /\ cache'.docs[k].last_disliked_by = ""
                /\ (Steps(p) /\ pc'[p] = "done" /\ req'[p].status = 200
                      /\ req[p].total_search_count > 0) =>
                      /\ req'[p].summarize_calls = 1
                      /\ req'[p].writes = 1
                      /\ req'[p].response.summary = SourceExcludes(cache.docs[k])
                      /\ req'[p].response.summary.ai_summary_cache = req[p].ai_summary
    ]_vars

\* a keyed page-1 search has replaced the summary of an entry that had a like
\* and has reset it, and the other entry of the cache is as it was
C16_Witness ==
    \E p \in Procs :
        /\ Searched(p) /\ KeyedPageOne(p) /\ req[p].status = 200
        /\ req[p].base.total_likes = 1
        /\ req[p].base.ai_summary_cache = "summary0"
        /\ Stored(CacheKey).ai_summary_cache = "summaryA"
        /\ Stored(CacheKey).total_likes = 0
        /\ Stored(CacheKey).liked_by_cdsids = <<>>
        /\ Stored(CacheKey).last_liked_by = ""
        /\ DOMAIN cache.docs = {CacheKey, RegionalKey}
        /\ Stored(RegionalKey).ai_summary_cache = "summary1"

\* the hits of the cache query that are eligible for the request of slot p
Eligible(p) ==
    SelectSeq(req[p].cache_hits,
              LAMBDA h : req[p].regions # <<>> \/ h._source.regions = <<>>)

\* slot p, in a fresh lookup, has put a candidate to the equivalence
\* collaborator and has its answer (or none)
Answered(p) ==
    /\ req[p].op = "search"
    /\ req[p].ai_summary_cache_id = <<>>
    /\ pc[p] \in {"summarize", "cache", "cache_return", "done"}
    /\ Eligible(p) # <<>>
    /\ req[p].status # 500

\* slot p has returned the summary of the candidate without generating one
Reused(p) ==
    /\ pc[p] = "done" /\ req[p].status = 200
    /\ req[p].summarize_calls = 0 /\ req[p].writes = 0
    /\ req[p].response.summary = Eligible(p)[1]._source

\* slot p regenerates: the summarization collaborator is about to be called or
\* has been called
Regenerates(p) == pc[p] = "summarize" \/ req[p].summarize_calls = 1

\* C17: in a fresh lookup with a candidate, the candidate's summary is reused
\* if and only if the answer of the equivalence collaborator contains the word
\* yes in any letter case; the answers no, unsure, yesterday, and no answer at
\* all lead to regeneration.
C17_ReuseOnYes ==
    \A p \in Procs :
        Answered(p) =>
            IF req[p].llm_response \in {<<"yes">>, <<"Yes", "same", "topic">>}
            THEN Reused(p) /\ ~Regenerates(p)
            ELSE Regenerates(p) /\ ~Reused(p)

\* the answer "Yes same topic" has led to the reuse of the cached summary
C17_Witness ==
    \E p \in Procs :
        /\ Answered(p) /\ Reused(p)
        /\ req[p].llm_response = <<"Yes", "same", "topic">>
        /\ req[p].response.summary.ai_summary_cache = "summary0"
        /\ req[p].response.summary.total_likes = 1

\* slot p, in a fresh lookup, has returned a cached entry as the summary
ReturnedCached(p) ==
    /\ Searched(p) /\ req[p].status = 200
    /\ req[p].ai_summary_cache_id = <<>>
    /\ req[p].summarize_calls = 0 /\ req[p].writes = 0
    /\ req[p].response.summary # EmptyObject

\* C18: for a search request without a region filter, the cache entry put to
\* the equivalence collaborator and the cache entry returned as the summary
\* always have an empty regions list.
C18_GenericOnly ==
    \A p \in Procs :
        (req[p].op = "search" /\ req[p].regions = <<>>) =>
            /\ \A i \in 1..Len(req[p].candidate) :
                  \E j \in 1..Len(req[p].cache_hits) :
                      /\ req[p].cache_hits[j]._id = req[p].candidate[i]
                      /\ req[p].cache_hits[j]._source.regions = <<>>
            /\ ReturnedCached(p) => req[p].response.summary.regions = <<>>

\* the cache query of a request without regions ranked the regional entry
\* first and the generic entry second, and the generic entry has been reused
C18_Witness ==
    \E p \in Procs :
        /\ ReturnedCached(p) /\ req[p].regions = <<>>
        /\ Len(req[p].cache_hits) = 2
        /\ req[p].cache_hits[1]._id = RegionalKey
        /\ req[p].cache_hits[1]._source.regions = <<"NA">>
        /\ req[p].candidate = <<CacheKey>>
        /\ req[p].response.summary.key = CacheKey

\* slot p, in a fresh page-1 lookup, is through with checking the cache and
\* has found no entry: the cache index was missing or empty, or the query had
\* no hit
NoCandidateFound(p) ==
    /\ req[p].op = "search"
    /\ req[p].page_no = 1
    /\ req[p].ai_summary_cache_id = <<>>
    /\ req[p].total_search_count > 0
    /\ pc[p] \notin {"search", "cache_lookup", "cache_search"}
    /\ req[p].cache_hits = <<>>

\* C19: whenever a fresh lookup finds the cache index missing or empty, or the
\* cache query has no hit, the summary is regenerated and cached, no error of
\* the check is surfaced, and the search succeeds (as long as the cache index
\* is there when the cached entry is read back).
C19_NotFoundRecovered ==
    \A p \in Procs :
        NoCandidateFound(p) =>
            /\ Regenerates(p)
            /\ req[p].error # "AppException"
            /\ (pc[p] = "done" /\ cache.exists) =>
                  /\ req[p].status = 200
                  /\ req[p].writes = 1

\* slot p, in a fresh page-1 lookup without a region filter, got hits from the
\* cache query and every hit has a region scope
OnlyRegionalHits(p) ==
    /\ req[p].op = "search"
    /\ req[p].page_no = 1
    /\ req[p].ai_summary_cache_id = <<>>
    /\ req[p].regions = <<>>
    /\ pc[p] \notin {"search", "cache_lookup", "cache_search"}
    /\ req[p].cache_hits # <<>>
    /\ \A i \in 1..Len(req[p].cache_hits) :
          req[p].cache_hits[i]._source.regions # <<>>

\* C20: when the cache query of a fresh lookup without a region filter returns
\* hits that all have a region scope, the summary is regenerated and the
\* search ends with 200, not with an error.
C20_NoGenericCandidate ==
    \A p \in Procs :
        OnlyRegionalHits(p) =>
            /\ Regenerates(p)
            /\ pc[p] = "done" => req[p].status = 200

----------------------------------------------------------------------------
(* Creation of cache entries, the documents put to the summarizer *)

\* the index named name, after the step
IndexOfNext(name) == IF name = CacheIndexName THEN cache' ELSE insights'

\* slot p, a search without a cache key, calls cache_ai_summaries in this step
CachesWithoutKey(p) ==
    /\ Steps(p) /\ pc[p] = "cache"
    /\ req[p].ai_summary_cache_id = <<>>

\* C21: cache_ai_summaries without a key adds exactly one entry to the index,
\* under a key that was not in it, leaving every other entry as it was; the
\* entry has both counters 0, both membership lists empty, both last-actor
\* fields empty, the original user query as user_query and the regions of the
\* request; the document the search then returns on page 1 is the document
\* stored under that key.
C21_CreatesOneEntry ==
    [][\A p \in Procs :
        /\ CachesWithoutKey(p) =>
              LET before == IndexOf(req[p].index).docs
                  after  == IndexOfNext(req[p].index).docs
                  key    == req'[p].key
              IN  /\ key \notin DOMAIN before
                  /\ DOMAIN after = (DOMAIN before) \cup {key}
                  /\ \A j \in DOMAIN before : after[j] = before[j]
                  /\ after[key].key = key
                  /\ after[key].total_likes = 0
                  /\ after[key].total_dislikes = 0
                  /\ after[key].liked_by_cdsids = <<>>
                  /\ after[key].disliked_by_cdsids = <<>>
                  /\ after[key].last_liked_by = ""
                  /\ after[key].last_disliked_by = ""
                  /\ after[key].user_query = req[p].original_query
                  /\ after[key].regions = req[p].regions
                  /\ after[key].ai_summary_cache = req[p].ai_summary
        /\ (Steps(p) /\ pc[p] = "cache_return" /\ req[p].op = "search"
              /\ req[p].ai_summary_cache_id = <<>> /\ req'[p].status = 200
              /\ req[p].page_no = 1) =>
              LET stored == IndexOf(req[p].index).docs[req[p].key]
              IN  \A f \in DOMAIN req'[p].response.summary :
                      req'[p].response.summary[f] = stored[f]
    ]_vars

\* a regional page-1 search without a key has cached a generated summary next
\* to the two entries the cache had and has returned the new entry
C21_Witness ==
    \E p \in Procs :
        /\ Searched(p) /\ req[p].status = 200 /\ req[p].page_no = 1
        /\ req[p].ai_summary_cache_id = <<>>
        /\ req[p].writes = 1 /\ req[p].summarize_calls = 1
        /\ req[p].regions # <<>>
        /\ DOMAIN cache.docs = {CacheKey, RegionalKey, req[p].key}
        /\ req[p].key \notin {CacheKey, RegionalKey}
        /\ Stored(req[p].key).user_query = req[p].original_query
        /\ Stored(req[p].key).topic # req[p].original_query
        /\ Stored(req[p].key).regions = req[p].regions
        /\ Stored(req[p].key).total_likes = 0
        /\ Stored(CacheKey).total_likes = 1
        /\ req[p].response.summary.key = req[p].key

\* the fields of an insight that are put to the summarizer
fields_to_summarize == {"title", "description", "authors", "regions"}

\* C22: the list of documents passed to the summarization collaborator has
\* min(10, number of results that passed the cutoff) elements; its i-th element
\* is made from the i-th result, and holds no field other than title,
\* description, authors and regions, each with the value the result has.
C22_FirstTenFiltered ==
    \A p \in Procs :
        (req[p].op = "search" /\ req[p].summarize_calls > 0) =>
            LET d == req[p].documents_to_summarize
                r == req[p].search_results
            IN  /\ Len(d) = Min(10, Len(r))
                /\ \A i \in 1..Len(d) :
                      /\ DOMAIN d[i] \subseteq fields_to_summarize
                      /\ \A f \in DOMAIN d[i] : d[i][f] = r[i]._source[f]
                      /\ fields_to_summarize \cap DOMAIN r[i]._source
                            \subseteq DOMAIN d[i]

\* more than 10 results passed the cutoff and the summarizer was given the
\* first 10 of them, without their key and finding
C22_Witness ==
    \E p \in Procs :
        /\ req[p].op = "search" /\ req[p].summarize_calls = 1
        /\ Len(req[p].search_results) > 10
        /\ Len(req[p].documents_to_summarize) = 10
        /\ "finding" \in DOMAIN req[p].search_results[1]._source
        /\ "finding" \notin DOMAIN req[p].documents_to_summarize[1]
        /\ req[p].documents_to_summarize[10].title
              = req[p].search_results[10]._source.title
        /\ req[p].documents_to_summarize[10].title
              # req[p].documents_to_summarize[1].title

\* the summarization call of slot p has raised
SummarizerFailed(p) == req[p].op = "search" /\ req[p].summarize_raised

\* C24: when the call to the summarization collaborator fails during a page-1
\* search, the search does not answer 200 and writes no cache entry.
C24_SummarizerFailure ==
    \A p \in Procs :
        SummarizerFailed(p) =>
            /\ req[p].writes = 0
            /\ pc[p] = "done" => req[p].status # 200

\* slot p, a fresh lookup, ends in reuse in this step
ReusesInStep(p) ==
    /\ Steps(p) /\ pc[p] = "cache_search"
    /\ pc'[p] = "done" /\ req'[p].status = 200

\* slot p is in a fresh lookup that has not yet decided to regenerate
InFreshLookup(p) ==
    /\ req[p].op = "search" /\ req[p].ai_summary_cache_id = <<>>
    /\ pc[p] \in {"cache_lookup", "cache_search"}

\* C30: no step of a fresh lookup, and in particular the step that ends in
\* reuse, calls the summarization collaborator or creates or changes a cache
\* document; the summary returned on reuse is the document stored for the
\* candidate (without its vector).
C30_ReuseWritesNothing ==
    [][\A p \in Procs :
        /\ (InFreshLookup(p) /\ Steps(p)) =>
              /\ cache' = cache /\ insights' = insights
              /\ llm_calls' = llm_calls
              /\ req'[p].summarize_calls = 0 /\ req'[p].writes = 0
        /\ ReusesInStep(p) =>
              LET k == req'[p].candidate[1]
                  summary == req'[p].response.summary
              IN  /\ k \in DOMAIN cache.docs
                  /\ DOMAIN summary = (DOMAIN cache.docs[k]) \ {"topic_vector"}
                  /\ \A f \in DOMAIN summary : summary[f] = cache'.docs[k][f]
    ]_vars

\* a fresh lookup has ended in reuse of the entry that had a like, with no
\* summarizer call, and the two entries of the cache are as they were
C30_Witness ==
    \E p \in Procs :
        /\ Searched(p) /\ req[p].status = 200
        /\ req[p].ai_summary_cache_id = <<>>
        /\ req[p].candidate = <<CacheKey>>
        /\ req[p].summarize_calls = 0 /\ req[p].writes = 0
        /\ llm_calls = 0
        /\ DOMAIN cache.docs = {CacheKey, RegionalKey}
        /\ Stored(CacheKey).ai_summary_cache = "summary0"
        /\ Stored(CacheKey).total_likes = 1
        /\ req[p].response.summary.ai_summary_cache = "summary0"
        /\ req[p].response.summary.key = CacheKey

----------------------------------------------------------------------------
(* Hashtag extraction (ElasticService.extract_hashtags) *)

\* longest query text that is drawn
MaxQueryLen == 4

\* the characters query texts are made of: the hashtag marker, a letter, the
\* underscore, a special character and the blank
Chars == {"#", "a", "_", "!", " "}

\* the characters that re.sub(r'[^a-zA-Z0-9_]', '', hashtag) keeps
WordChars == {"a", "_"}

RECURSIVE Texts(_)
Texts(n) ==
    IF n = 0 THEN {<<>>}
    ELSE Texts(n - 1) \cup {Append(t, c) : t \in Texts(n - 1), c \in Chars}

Queries == Texts(MaxQueryLen)

\* query.split() from position i on, word being the token read so far: runs of
\* blanks separate the tokens and no token is empty
RECURSIVE SplitFrom(_, _, _)
SplitFrom(query, i, word) ==
    IF i > Len(query)
    THEN IF word = <<>> THEN <<>> ELSE <<word>>
    ELSE IF query[i] = " "
    THEN (IF word = <<>> THEN <<>> ELSE <<word>>) \o SplitFrom(query, i + 1, <<>>)
    ELSE SplitFrom(query, i + 1, Append(word, query[i]))

Split(query) == SplitFrom(query, 1, <<>>)

\* [word[1:] for word in words if word.startswith('#')], then re.sub on each
extract_hashtags(query) ==
    LET words == Split(query)
        marked == SelectSeq(words, LAMBDA word : word[1] = "#")
        hashtags == [i \in 1..Len(marked) |-> Tail(marked[i])]
    IN  [i \in 1..Len(hashtags) |->
            SelectSeq(hashtags[i], LAMBDA c : c \in WordChars)]

\* a query text arrives at the query builder
InitHashtags ==
    /\ cache = [exists |-> FALSE, docs |-> <<>>]
    /\ insights = [exists |-> FALSE, ndocs |-> 0, docs |-> <<>>]
    /\ pc = [p \in Procs |-> IF p \in SearchProcs THEN "hash_tags" ELSE "idle"]
    /\ \E query \in Queries :
         req = [p \in Procs |->
                   IF p \in SearchProcs
                   THEN [op |-> "get_es_query", query |-> query, hash_tags |-> <<>>]
                   ELSE IdleReq]
    /\ clock = 1
    /\ nops = 0
    /\ llm_calls = 0
    /\ job_history = NoJobs

(* get_es_query, line 337: hash_tags = await extract_hashtags(query) *)
hash_tags(p) ==
    /\ pc[p] = "hash_tags"
    /\ req' = [req EXCEPT ![p].hash_tags = extract_hashtags(req[p].query)]
    /\ pc' = [pc EXCEPT ![p] = "done"]
    /\ UNCHANGED <<cache, insights, clock, nops, llm_calls, job_history>>

NextHashtags == \E p \in SearchProcs : hash_tags(p)

SpecHashtags == InitHashtags /\ [][NextHashtags]_vars

\* the hashtags of slot p have been extracted
Extracted(p) == pc[p] = "done" /\ req[p].op = "get_es_query"

\* C23: for every query text the extracted hashtags are as many as the
\* tokens of the text that start with '#', none of them holds a character
\* outside [a-zA-Z0-9_], none of them is the empty string, and the empty query
\* yields the empty list.
C23_NoEmptyHashtag ==
    \A p \in Procs :
        Extracted(p) =>
            LET tags == req[p].hash_tags
            IN  /\ Len(tags) = Len(SelectSeq(Split(req[p].query),
                                             LAMBDA word : word[1] = "#"))
                /\ \A i \in 1..Len(tags) :
                      /\ Range(tags[i]) \subseteq WordChars
                      /\ tags[i] # <<>>
                /\ req[p].query = <<>> => tags = <<>>

----------------------------------------------------------------------------
(* Deletion *)

\* slot p, a delete request, has its deletion done in this step
Deletes(p) ==
    /\ pc[p] = "delete" /\ pc'[p] = "done"
    /\ req'[p].status = 204

\* C25: an entry of the cache index leaves the index only in a step that
\* deletes the whole cache index, that is in the deletion of a delete request
\* for the cache index that carries no key; searches, reloads and delete
\* requests with a key leave every entry in the index.
C25_EntryStays ==
    [][\A k \in DOMAIN cache.docs :
          k \notin DOMAIN cache'.docs =>
              \E p \in DeleteProcs :
                  /\ Deletes(p)
                  /\ req[p].index = CacheIndexName
                  /\ req[p].key = NoKey
                  /\ ~cache'.exists
    ]_vars

\* C27: the deletion of a delete request that carries a key, 0 included,
\* removes the document with that key and nothing else and keeps the index;
\* the deletion of a request without a key removes the index.
C27_KeyedDeleteKeepsIndex ==
    [][\A p \in DeleteProcs :
          Deletes(p) =>
              LET before == IndexOf(req[p].index)
                  after  == IndexOfNext(req[p].index)
              IN  IF req[p].key # NoKey
                  THEN /\ after.exists
                       /\ DOMAIN after.docs = (DOMAIN before.docs) \ {req[p].key[1]}
                       /\ \A k \in DOMAIN after.docs : after.docs[k] = before.docs[k]
                  ELSE ~after.exists
    ]_vars

----------------------------------------------------------------------------
(* Job history and sync (AsyncJobHandler, DataService.process_sync) *)

\* handlers/async_job_handler.py
capacity == 30

\* most sync requests that are made
MaxSyncs == 2

\* the slots that serve the sync requests and run their tasks
SyncProcs == {1, 2}

\* int(time.time() * 1000) as read by the sync requests; the wall clock can
\* give the same reading twice and can be set back
JobIds == {5, 60}

\* id of the oldest job of a history that exists when the requests arrive
FirstJobId == 11

\* SyncOptions, and a name that passes the validation of the endpoint
\* (^[a-z_]+$, 3 to 20 characters) and is no sync option
SyncOptionNames == {"insert", "upsert", "bulk_insert"}
sync_options == SyncOptionNames \cup {"update"}

\* data of a job that has none
NoData == <<>>

\* a record of the source with the given key, and the document of an earlier
\* sync with that key
Record(k) == [key |-> k, title |-> "new", status |-> "synced"]
OldDocument(k) == [key |-> k, title |-> "old", finding |-> "kept"]

\* what insight_service.get_insights(key) and the two steps after it give:
\* the source is empty or holds the insights 1 and 2
SourceRecords(key) ==
    IF key = NoKey
    THEN {<<>>, <<Record(1), Record(2)>>}
    ELSE {<<>>, <<Record(key[1])>>}

MinOf(S) == CHOOSE x \in S : \A y \in S : x <= y
MaxOf(S) == CHOOSE x \in S : \A y \in S : x >= y

\* a register that evicts the job with the largest id
register_EvictLargest(history, job_id, name, status, data) ==
    LET kept == IF Cardinality(DOMAIN history) >= capacity
                THEN (DOMAIN history) \ {MaxOf(DOMAIN history)}
                ELSE DOMAIN history
    IN  [k \in kept \cup {job_id} |->
            IF k = job_id
            THEN [job_id |-> job_id, name |-> name, status |-> status, data |-> data]
            ELSE history[k]]

\* AsyncJobHandler.register
register(history, job_id, name, status, data) ==
    LET kept == IF Cardinality(DOMAIN history) >= capacity
                THEN (DOMAIN history) \ {MinOf(DOMAIN history)}
                ELSE DOMAIN history
    IN  [k \in kept \cup {job_id} |->
            IF k = job_id
            THEN [job_id |-> job_id, name |-> name, status |-> status, data |-> data]
            ELSE history[k]]

\* an update that leaves the status as it is
update_DataOnly(history, job_id, status, data) ==
    IF job_id \in DOMAIN history
    THEN [history EXCEPT ![job_id].data = data]
    ELSE history

\* AsyncJobHandler.update
update(history, job_id, status, data) ==
    IF job_id \in DOMAIN history
    THEN [history EXCEPT ![job_id].status = status, ![job_id].data = data]
    ELSE history

\* AsyncJobHandler.cleanup
cleanup(history) == NoJobs

\* AsyncJobHandler.remove; job_id is NoKey for None
remove(history, job_id) ==
    IF Truthy(job_id)
    THEN [k \in (DOMAIN history) \ {job_id[1]} |-> history[k]]
    ELSE cleanup(history)

\* a history of n finished jobs
FinishedJobs(n) ==
    [k \in FirstJobId..(FirstJobId + n - 1) |->
        [job_id |-> k, name |-> "sync", status |-> "COMPLETED",
         data |-> [total_records |-> 0]]]

\* the index with these documents
Synced(docs) == [exists |-> TRUE, ndocs |-> Cardinality(DOMAIN docs), docs |-> docs]

InitSync ==
    /\ cache = [exists |-> FALSE, docs |-> <<>>]
    /\ \/ insights = [exists |-> FALSE, ndocs |-> 0, docs |-> <<>>]
       \/ insights = Synced([k \in {1, 2} |-> OldDocument(k)])
    /\ pc = [p \in Procs |-> "idle"]
    /\ req = [p \in Procs |-> IdleReq]
    /\ clock = 1
    /\ nops = 0
    /\ llm_calls = 0
    /\ \E n \in {0, capacity} : job_history = FinishedJobs(n)

(* PUT /index/{index}: the job is registered, the task is created and the   *)
(* job is returned with 202                                                  *)
AcceptSync(p, keys) ==
    /\ pc[p] \in {"idle", "done"}
    /\ nops < MaxSyncs
    /\ nops' = nops + 1
    /\ \E job_id \in JobIds, key \in keys, sync_option \in sync_options :
         LET registered == register(job_history, job_id, "sync", "IN_PROGRESS", NoData)
         IN  /\ job_history' = registered
             /\ req' = [req EXCEPT ![p] =
                    [op |-> "sync", job_id |-> job_id, key |-> key,
                     index |-> InsightsIndexName, sync_option |-> sync_option,
                     insight_records |-> <<>>, keys_not_in_source |-> {},
                     written |-> 0, raised |-> FALSE]]
             /\ pc' = [pc EXCEPT ![p] = "sync_insights"]
    /\ UNCHANGED <<cache, insights, clock, llm_calls>>

(* PUT /index/{index} without a key: the whole source is synced *)
put_api_insights_index_key_v1(p) == AcceptSync(p, {NoKey})

(* PUT /index/{index}?key=1: the insight 1 is synced *)
put_api_insights_index_key_v1_key(p) == AcceptSync(p, {<<1>>})

\* what is left of a task that has returned: its locals are gone
Returned(r, raised) ==
    [op |-> "sync", job_id |-> r.job_id, raised |-> raised]

\* process_sync, except clause: the job is updated to FAILED
JobFails(p, error) ==
    /\ job_history' = update(job_history, req[p].job_id, "FAILED", [error |-> error])
    /\ req' = [req EXCEPT ![p] = Returned(req[p], TRUE)]
    /\ pc' = [pc EXCEPT ![p] = "done"]

\* the await that follows the deletions of elastic_service.sync_insights
WriteStep(r) ==
    IF r.sync_option = "bulk_insert" THEN "bulk_index"
    ELSE IF r.insight_records = <<>> THEN "get_total_count"
    ELSE "insert_or_upsert"

(* DataService.sync_insights up to the call of elastic_service.sync_insights: *)
(* get_insights, preprocess_data and vectorize_data return the records or     *)
(* one of them raises                                                         *)
sync_insights(p) ==
    /\ pc[p] = "sync_insights"
    /\ \/ /\ JobFails(p, "Exception")
       \/ /\ \E insight_records \in SourceRecords(req[p].key) :
                req' = [req EXCEPT ![p].insight_records = insight_records]
          /\ pc' = [pc EXCEPT ![p] = "create_index"]
          /\ UNCHANGED job_history
    /\ UNCHANGED <<cache, insights, clock, nops, llm_calls>>

(* elastic_service.sync_insights: create_index_if_not_exists and, without a  *)
(* key, find_deleted_insights                                                *)
create_index_if_not_exists(p) ==
    /\ pc[p] = "create_index"
    /\ LET docs == insights.docs
           source_keys == {req[p].insight_records[i].key :
                              i \in 1..Len(req[p].insight_records)}
           keys_not_in_source == IF req[p].key = NoKey
                                 THEN (DOMAIN docs) \ source_keys ELSE {}
           r == [req[p] EXCEPT !.keys_not_in_source = keys_not_in_source]
       IN  /\ insights' = Synced(docs)
           /\ req' = [req EXCEPT ![p] = r]
           /\ pc' = [pc EXCEPT ![p] =
                 IF keys_not_in_source # {} THEN "delete_by_keys" ELSE WriteStep(r)]
    /\ UNCHANGED <<cache, clock, nops, llm_calls, job_history>>

\* a sync that deletes nothing
delete_insight_by_keys_Skipped(p) ==
    /\ pc[p] = "delete_by_keys"
    /\ pc' = [pc EXCEPT ![p] = WriteStep(req[p])]
    /\ UNCHANGED <<cache, insights, req, clock, nops, llm_calls, job_history>>

(* delete_insight_by_keys: the deletes are gathered; a key that is no longer *)
(* in the index raises NotFoundError while the other deletes go on           *)
delete_insight_by_keys(p) ==
    /\ pc[p] = "delete_by_keys"
    /\ LET docs == insights.docs
           keys == req[p].keys_not_in_source
       IN  /\ insights' = Synced([k \in (DOMAIN docs) \ keys |-> docs[k]])
           /\ IF keys \subseteq DOMAIN docs
              THEN /\ pc' = [pc EXCEPT ![p] = WriteStep(req[p])]
                   /\ UNCHANGED <<req, job_history>>
              ELSE JobFails(p, "NotFoundError")
    /\ UNCHANGED <<cache, clock, nops, llm_calls>>

(* bulk_index: async_bulk indexes every record or raises *)
bulk_index(p) ==
    /\ pc[p] = "bulk_index"
    /\ \/ /\ JobFails(p, "InsightException")
          /\ UNCHANGED insights
       \/ /\ LET records == req[p].insight_records
                 keys == {records[i].key : i \in 1..Len(records)}
             IN  insights' = Synced(
                    [k \in (DOMAIN insights.docs) \cup keys |->
                        IF k \in keys THEN Record(k) ELSE insights.docs[k]])
          /\ req' = [req EXCEPT ![p].written = Len(req[p].insight_records)]
          /\ pc' = [pc EXCEPT ![p] = "get_total_count"]
          /\ UNCHANGED job_history
    /\ UNCHANGED <<cache, clock, nops, llm_calls>>

(* insert_or_upsert, one turn of its loop: the record is indexed (insert) or *)
(* updated with doc_as_upsert (upsert); with any other option the loop       *)
(* raises InsightException(404)                                              *)
insert_or_upsert(p) ==
    /\ pc[p] = "insert_or_upsert"
    /\ LET insight_record == req[p].insight_records[req[p].written + 1]
           docs == insights.docs
       IN  IF req[p].sync_option \notin {"insert", "upsert"}
           THEN /\ JobFails(p, "InsightException")
                /\ UNCHANGED insights
           ELSE /\ insights' = Synced(
                      IF req[p].sync_option = "insert"
                      THEN EsIndex(docs, insight_record.key, insight_record)
                      ELSE EsUpdate(docs, insight_record.key, insight_record))
                /\ req' = [req EXCEPT ![p].written = @ + 1]
                /\ pc' = [pc EXCEPT ![p] =
                      IF req[p].written + 1 = Len(req[p].insight_records)
                      THEN "get_total_count" ELSE "insert_or_upsert"]
                /\ UNCHANGED job_history
    /\ UNCHANGED <<cache, clock, nops, llm_calls>>

(* get_total_count, the response of sync_insights, and process_sync's update *)
(* of the job to COMPLETED                                                   *)
process_sync(p) ==
    /\ pc[p] = "get_total_count"
    /\ job_history' = update(job_history, req[p].job_id, "COMPLETED",
                             [total_records |-> Cardinality(DOMAIN insights.docs)])
    /\ req' = [req EXCEPT ![p] = Returned(req[p], FALSE)]
    /\ pc' = [pc EXCEPT ![p] = "done"]
    /\ UNCHANGED <<cache, insights, clock, nops, llm_calls>>

(* DELETE /jobs/v1: remove(job_id), job_id being None when it is not given *)
delete_api_insights_jobs_v1 ==
    /\ \E job_id \in {NoKey, <<0>>} \cup {<<j>> : j \in JobIds} :
         job_history' = remove(job_history, job_id)
    /\ job_history' # job_history
    /\ UNCHANGED <<cache, insights, pc, req, clock, nops, llm_calls>>

\* the steps of the task of slot p
Task(p) ==
    \/ sync_insights(p)
    \/ create_index_if_not_exists(p)
    \/ delete_insight_by_keys(p)
    \/ bulk_index(p)
    \/ insert_or_upsert(p)
    \/ process_sync(p)

NextSync ==
    \/ \E p \in SyncProcs :
          \/ put_api_insights_index_key_v1(p)
          \/ sync_insights(p)
          \/ create_index_if_not_exists(p)
          \/ delete_insight_by_keys(p)
          \/ bulk_index(p)
          \/ insert_or_upsert(p)
          \/ process_sync(p)
    \/ delete_api_insights_jobs_v1

SpecSync == InitSync /\ [][NextSync]_vars

\* the event loop runs every task that is ready, and the collaborator calls
\* return or raise
SpecSyncFair == SpecSync /\ WF_vars(\E p \in SyncProcs : Task(p))

\* syncs of the whole source and syncs of one insight
NextSyncKey ==
    \/ NextSync
    \/ \E p \in SyncProcs : put_api_insights_index_key_v1_key(p)

\* the index holds the insights 1 and 2 and an insight 3 that was synced
\* earlier and is no longer in the source
InitSyncKey ==
    /\ cache = [exists |-> FALSE, docs |-> <<>>]
    /\ insights = Synced([k \in {1, 2, 3} |-> OldDocument(k)])
    /\ pc = [p \in Procs |-> "idle"]
    /\ req = [p \in Procs |-> IdleReq]
    /\ clock = 1
    /\ nops = 0
    /\ llm_calls = 0
    /\ job_history = NoJobs

SpecSyncKey == InitSyncKey /\ [][NextSyncKey]_vars

----------------------------------------------------------------------------
(* Properties of the job history and of sync *)

\* the task of slot p returns in this step
TaskReturns(p) ==
    /\ req[p].op = "sync" /\ pc[p] \notin {"idle", "done"}
    /\ pc'[p] = "done"

\* slot p registers the job j in this step
Registers(p, j) ==
    /\ pc[p] \in {"idle", "done"} /\ pc'[p] = "sync_insights"
    /\ req'[p].job_id = j

StatusOf(j) == job_history[j].status

\* C29: a job that is in the history with status IN_PROGRESS is later out of
\* the history or has status COMPLETED or FAILED; the task that returns sets
\* the status of its job, if the job is in the history, to COMPLETED when its
\* sync raised nothing and to FAILED when it raised; and a status that is not
\* IN_PROGRESS becomes IN_PROGRESS only in a step that registers the same id.
C29_JobsFinish ==
    /\ \A j \in JobIds :
          (j \in DOMAIN job_history /\ StatusOf(j) = "IN_PROGRESS")
              ~> (j \notin DOMAIN job_history
                    \/ StatusOf(j) \in {"COMPLETED", "FAILED"})
    /\ [][\A p \in SyncProcs :
            (TaskReturns(p) /\ req[p].job_id \in DOMAIN job_history) =>
                job_history'[req[p].job_id].status =
                    IF req'[p].raised THEN "FAILED" ELSE "COMPLETED"]_vars
    /\ [][\A j \in (DOMAIN job_history) \cap (DOMAIN job_history') :
            (StatusOf(j) # "IN_PROGRESS"
                /\ job_history'[j].status = "IN_PROGRESS") =>
                \E p \in SyncProcs : Registers(p, j)]_vars

\* a task has completed its job and another task has failed its job
C29_Witness ==
    \E p, q \in SyncProcs :
        /\ pc[p] = "done" /\ req[p].op = "sync" /\ ~req[p].raised
        /\ pc[q] = "done" /\ req[q].op = "sync" /\ req[q].raised
        /\ req[p].job_id # req[q].job_id
        /\ req[p].job_id \in DOMAIN job_history
        /\ req[q].job_id \in DOMAIN job_history
        /\ StatusOf(req[p].job_id) = "COMPLETED"
        /\ StatusOf(req[q].job_id) = "FAILED"

\* C26: the job history never holds more than 30 jobs, and a register made
\* while it holds 30 takes out the job with the smallest id and then puts in
\* the new job.
C26_AtMostCapacity ==
    /\ [](Cardinality(DOMAIN job_history) <= 30)
    /\ [][\A p \in SyncProcs, j \in JobIds :
            (Registers(p, j) /\ Cardinality(DOMAIN job_history) >= 30) =>
                LET smallest == MinOf(DOMAIN job_history)
                IN  /\ \A k \in DOMAIN job_history : smallest <= k
                    /\ DOMAIN job_history'
                          = ((DOMAIN job_history) \ {smallest}) \cup {j}
                    /\ \A k \in (DOMAIN job_history') \ {j} :
                          job_history'[k] = job_history[k]
                    /\ job_history'[j].status = "IN_PROGRESS"]_vars

\* the history was full; the job 5, registered after the jobs 11 to 40, has
\* been taken out by the register of the job 60 while the job 12 is still in
C26_Witness ==
    /\ Cardinality(DOMAIN job_history) = capacity
    /\ 60 \in DOMAIN job_history
    /\ 5 \notin DOMAIN job_history
    /\ FirstJobId \notin DOMAIN job_history
    /\ (FirstJobId + 1) \in DOMAIN job_history
    /\ \E p, q \in SyncProcs :
          /\ req[p].op = "sync" /\ req[p].job_id = 5
          /\ req[q].op = "sync" /\ req[q].job_id = 60 /\ pc[q] = "sync_insights"

\* slot p runs the task of a sync request whose option is no sync option
InvalidOption(p) ==
    /\ req[p].op = "sync" /\ pc[p] \notin {"idle", "done"}
    /\ req[p].sync_option \notin {"insert", "upsert", "bulk_insert"}

SourceKeys(r) == {r.insight_records[i].key : i \in 1..Len(r.insight_records)}

\* slot p's task returns with the job COMPLETED
SyncCompletes(p) == pc[p] = "get_total_count" /\ pc'[p] = "done"

\* no other slot has ever taken a sync
RunsAlone(p) == \A q \in SyncProcs \ {p} : pc[q] = "idle"

ReloadedFields ==
    {"ai_summary_cache", "total_likes", "total_dislikes", "liked_by_cdsids",
     "disliked_by_cdsids", "last_liked_by", "last_disliked_by",
     "updated_by_cdsid", "updated_datetime_utc"}

\* slot p's keyed search writes the regenerated summary into the cache entry
ReloadsInPlace(p) ==
    /\ KeyedPageOne(p)
    /\ pc[p] = "cache_update"
    /\ Steps(p)
    /\ IsCacheIndex(req[p].index)

\* C32: the write of a keyed search into the cache entry with that key leaves
\* every field of the entry outside the summary text, the counters, the
\* membership lists, the last-actor fields and the audit stamp as it was: key,
\* topic, user_query, regions (and the topic vector) are those of the stored
\* entry, whatever the query and the regions of the request are.
C32_ReloadKeepsIdentity ==
    [][\A p \in Procs :
          ReloadsInPlace(p) =>
              LET k == req[p].ai_summary_cache_id[1]
              IN  /\ k \in DOMAIN cache.docs
                  /\ DOMAIN cache'.docs[k] = DOMAIN cache.docs[k]
                  /\ {"key", "topic", "user_query", "regions"} \cap ReloadedFields = {}
                  /\ \A f \in (DOMAIN cache.docs[k]) \ ReloadedFields :
                        cache'.docs[k][f] = cache.docs[k][f]]_vars

\* a keyed search for the regions NA whose query is not the stored topic has
\* replaced the summary of the generic entry, whose topic and regions are as
\* they were
C32_Witness ==
    \E p \in Procs :
        /\ Searched(p) /\ KeyedPageOne(p) /\ req[p].status = 200
        /\ req[p].writes = 1
        /\ req[p].regions = <<"NA">>
        /\ req[p].query = "blue cruise"
        /\ Stored(CacheKey).ai_summary_cache = req[p].ai_summary
        /\ Stored(CacheKey).ai_summary_cache # "summary0"
        /\ Stored(CacheKey).topic = "cruise"
        /\ Stored(CacheKey).regions = <<>>
        /\ Stored(CacheKey).key = CacheKey

\* slot p, in a fresh lookup, has put the candidate entry to the equivalence
\* collaborator and the answer was not affirmative
NotEquivalent(p) ==
    /\ req[p].op = "search"
    /\ req[p].ai_summary_cache_id = <<>>
    /\ req[p].candidate # <<>>
    /\ req[p].status # 500
    /\ ~Affirmative(req[p].llm_response)

\* C33: in a fresh lookup whose candidate was not judged equivalent, the
\* regeneration stores the generated summary under a newly minted key that is
\* not the key of any entry: the cache has one entry more, the candidate entry
\* and every other entry are as they were, and no other step of the request
\* changes the cache.
C33_RegenerationAddsEntry ==
    [][\A p \in Procs :
          (NotEquivalent(p) /\ Steps(p)) =>
              LET candidate == req[p].candidate[1]
              IN  IF pc[p] = "cache"
                  THEN /\ IsCacheIndex(req[p].index)
                       /\ req[p].summarize_calls = 1
                       /\ req'[p].key \notin DOMAIN cache.docs
                       /\ DOMAIN cache'.docs = (DOMAIN cache.docs) \cup {req'[p].key}
                       /\ Cardinality(DOMAIN cache'.docs) =
                             Cardinality(DOMAIN cache.docs) + 1
                       /\ \A j \in DOMAIN cache.docs : cache'.docs[j] = cache.docs[j]
                       /\ candidate \in DOMAIN cache.docs
                       /\ cache'.docs[req'[p].key].ai_summary_cache = req[p].ai_summary
                  ELSE cache' = cache]_vars

\* the candidate was judged not equivalent, and the search has returned a
\* generated summary stored under a new key next to the candidate entry,
\* which still has its summary and its like
C33_Witness ==
    \E p \in Procs :
        /\ Searched(p) /\ NotEquivalent(p) /\ req[p].status = 200
        /\ req[p].llm_response = <<"no">>
        /\ req[p].candidate = <<CacheKey>>
        /\ req[p].key \notin {CacheKey, RegionalKey}
        /\ DOMAIN cache.docs = {CacheKey, req[p].key}
        /\ Stored(CacheKey).ai_summary_cache = "summary0"
        /\ Stored(CacheKey).total_likes = 1
        /\ Stored(req[p].key).ai_summary_cache = req[p].ai_summary
        /\ req[p].response.summary.key = req[p].key

\* C34: in every stored state of the cache entry, under every sequence and
\* interleaving of like, dislike and reload, total_likes is the number of
\* distinct identities in liked_by_cdsids and total_dislikes the number of
\* distinct identities in disliked_by_cdsids, no identity occurs twice in
\* either list, and neither counter is negative.
C34_CountersMatchLists ==
    \A k \in DOMAIN cache.docs :
        LET d == Stored(k)
        IN  /\ d.total_likes = Cardinality(Range(d.liked_by_cdsids))
            /\ d.total_dislikes = Cardinality(Range(d.disliked_by_cdsids))
            /\ Len(d.liked_by_cdsids) = Cardinality(Range(d.liked_by_cdsids))
            /\ Len(d.disliked_by_cdsids) = Cardinality(Range(d.disliked_by_cdsids))
            /\ d.total_likes >= 0
            /\ d.total_dislikes >= 0

\* three reactions have been written and a fourth is about to be: the entry
\* holds one like and one dislike by different reactors, while a slot that read
\* the entry before the last write still holds a base with other lists
C34_Witness ==
    /\ Stored(CacheKey).total_likes = 1
    /\ Stored(CacheKey).total_dislikes = 1
    /\ Len(Stored(CacheKey).liked_by_cdsids) = 1
    /\ Len(Stored(CacheKey).disliked_by_cdsids) = 1
    /\ \E p \in Procs :
          /\ pc[p] = "update"
          /\ req[p].user_reaction \in {"like", "dislike"}
          /\ req[p].base.liked_by_cdsids # Stored(CacheKey).liked_by_cdsids

\* the display names of the reactors in the list of identities s
DisplayNames(s) == {DisplayName(s[i]) : i \in 1..Len(s)}

\* C35: in every stored state of the cache entry, last_liked_by is empty when
\* liked_by_cdsids is empty and otherwise is the display name of a reactor in
\* liked_by_cdsids, and last_disliked_by and disliked_by_cdsids likewise (the
\* display names of the reactors differ from their identities).
C35_LastActorInList ==
    \A k \in DOMAIN cache.docs :
        LET d == Stored(k)
        IN  /\ \A u \in Users : DisplayName(u) # u
            /\ IF d.liked_by_cdsids = <<>>
               THEN d.last_liked_by = ""
               ELSE d.last_liked_by \in DisplayNames(d.liked_by_cdsids)
            /\ IF d.disliked_by_cdsids = <<>>
               THEN d.last_disliked_by = ""
               ELSE d.last_disliked_by \in DisplayNames(d.disliked_by_cdsids)

----------------------------------------------------------------------------
(* A reaction next to a regeneration *)

\* C36: the write of a like or a dislike leaves the summary text of the stored
\* entry as it is, also when a keyed search has regenerated the summary of the
\* entry since the reaction read it.
C36_ReactionKeepsSummary ==
    [][\A p \in ReactProcs :
          (Writes(p) /\ req[p].op = "react"
              /\ req[p].user_reaction \in {"like", "dislike"}
              /\ req[p].key \in DOMAIN cache.docs)
            => cache'.docs[req[p].key].ai_summary_cache =
                  cache.docs[req[p].key].ai_summary_cache]_vars

----------------------------------------------------------------------------
(* What a search writes *)

\* slot p's search caches the fixed "no results" summary in this step
CachesApology(p) ==
    /\ req[p].op = "search"
    /\ pc[p] = "cache" /\ Steps(p)
    /\ req[p].ai_summary = ApologySummary
    /\ req[p].total_search_count = 0

\* C37: a search that caches the fixed "no results" summary writes the entry
\* into the summary-cache index, and no step of a search adds or changes a
\* document of the searched insights index.
C37_ApologyIntoCache ==
    [][\A p \in SearchProcs :
          /\ (CachesApology(p) /\ pc'[p] = "cache_return")
                => /\ req'[p].key \in DOMAIN cache'.docs
                   /\ cache'.docs[req'[p].key].ai_summary_cache = ApologySummary
          /\ (req[p].op = "search" /\ Steps(p)) => insights' = insights]_vars

\* C38: a search with page_no >= 2 only reads: no step of it creates or
\* changes a cache entry, creates an index or changes an index in any way.
C38_LaterPagesOnlyRead ==
    [][\A p \in SearchProcs :
          (req[p].op = "search" /\ req[p].page_no >= 2 /\ Steps(p))
            => /\ cache' = cache
               /\ insights' = insights
               /\ req'[p].writes = 0]_vars

----------------------------------------------------------------------------
(* Searches of two requesters over drafts *)

\* most searches that are made over the drafts
MaxDraftSearches == 2

\* the requesters of the searches over the drafts
DraftReaders == {"U1", "U2"}

\* the insights index: a published insight, a draft of author U1 and a draft
\* of creator U3 that U2 may view
DraftDocument(id) ==
    [key |-> id, title |-> <<"title", id>>, description |-> "description",
     authors |-> <<"U1">>, regions |-> <<"NA">>, finding |-> "finding",
     is_draft |-> id # 1,
     authors_cdsid |-> IF id = 3 THEN <<"U3">> ELSE <<"U1">>,
     draft_viewers_cdsid |-> IF id = 3 THEN <<"U2">> ELSE <<>>,
     created_by_cdsid |-> IF id = 3 THEN "U3" ELSE "U1"]

DraftIds == {1, 2, 3}

\* a term query
Term(field, value) == [term |-> [field |-> field, value |-> value]]

\* ElasticService.es_filter_query(cdsid)
es_filter_query(cdsid) ==
    [bool |->
        [must |-> <<>>,
         should |->
            <<Term("is_draft", FALSE),
              [bool |->
                  [must |->
                      <<Term("is_draft", TRUE),
                        [bool |->
                            [must |-> <<>>,
                             should |-> <<Term("authors_cdsid", cdsid),
                                          Term("draft_viewers_cdsid", cdsid),
                                          Term("created_by_cdsid", cdsid)>>,
                             minimum_should_match |-> 1]]>>,
                   should |-> <<>>,
                   minimum_should_match |-> 0]]>>,
         minimum_should_match |-> 1]]

\* the fields of an insight that hold a list of values
ListFields == {"authors_cdsid", "draft_viewers_cdsid"}

\* a term query matches a document that has the field with the value, or
\* with the value among its values
TermMatches(t, doc) ==
    /\ t.field \in DOMAIN doc
    /\ IF t.field \in ListFields
       THEN t.value \in Range(doc[t.field])
       ELSE doc[t.field] = t.value

\* the document store's evaluation of a term or bool query on a document
RECURSIVE Matches(_, _)
Matches(query, doc) ==
    IF "term" \in DOMAIN query
    THEN TermMatches(query.term, doc)
    ELSE LET b == query.bool
         IN  /\ \A i \in 1..Len(b.must) : Matches(b.must[i], doc)
             /\ Cardinality({i \in 1..Len(b.should) : Matches(b.should[i], doc)})
                   >= b.minimum_should_match

InitDrafts ==
    /\ cache = [exists |-> TRUE, docs |-> <<>>]
    /\ insights = [exists |-> TRUE, ndocs |-> 0,
                   docs |-> [id \in DraftIds |-> DraftDocument(id)]]
    /\ pc = [p \in Procs |-> "idle"]
    /\ req = [p \in Procs |-> IdleReq]
    /\ clock = 3
    /\ nops = 0
    /\ llm_calls = 0
    /\ job_history = NoJobs

(* PUT /index/{index}/search/v1 by one of the two requesters: page 1, no   *)
(* cache key, no regions; llm_service.extract_keywords returns the keywords *)
get_api_insights_index__search_v1(p) ==
    /\ pc[p] \in {"idle", "done"}
    /\ nops < MaxDraftSearches
    /\ nops' = nops + 1
    /\ \E u \in DraftReaders :
         req' = [req EXCEPT ![p] =
                [op |-> "search", index |-> InsightsIndexName,
                 cdsid |-> StripUpper(u),
                 logged_in_user_name |-> StripCapitalize(DisplayName(u)),
                 original_query |-> "blue cruise", query |-> "cruise",
                 regions |-> <<>>, page_no |-> 1, page_size |-> 24,
                 ai_summary_cache_id |-> <<>>,
                 index_exists |-> FALSE, total_docs |-> 0,
                 es_query |-> EmptyObject, hits |-> <<>>, total_hits |-> 0,
                 search_results |-> <<>>, total_search_count |-> 0,
                 ai_summary |-> "", key |-> 0,
                 base |-> NoDoc, document |-> NoDoc, status |-> 0, error |-> "",
                 response |-> EmptyObject, writes |-> 0, summarize_calls |-> 0,
                 summarize_raised |-> FALSE,
                 documents_to_summarize |-> <<>>, search_calls |-> 0,
                 cache_hits |-> <<>>, candidate |-> <<>>,
                 llm_response |-> NoAnswer]]
    /\ pc' = [pc EXCEPT ![p] = "search"]
    /\ UNCHANGED <<cache, insights, clock, llm_calls, job_history>>

\* the ids in S in ascending order
RECURSIVE Ascending(_)
Ascending(S) ==
    IF S = {} THEN <<>>
    ELSE LET m == CHOOSE x \in S : \A y \in S : x <= y
         IN  <<m>> \o Ascending(S \ {m})

(* elastic_search on the insights index: the hits are the documents that   *)
(* the knn query finds relevant and that match es_filter_query(cdsid)       *)
elastic_search(p) ==
    /\ pc[p] = "search"
    /\ LET docs == insights.docs
           total_docs == Cardinality(DOMAIN docs)
           built == get_es_query(req[p].page_no, req[p].page_size, total_docs)
           r0 == [req[p] EXCEPT !.index_exists = TRUE, !.total_docs = total_docs,
                                !.search_calls = @ + 1]
       IN  \E relevant \in SUBSET (DOMAIN docs) :
              LET found == Ascending({id \in relevant :
                              Matches(es_filter_query(req[p].cdsid), docs[id])})
              IN  AfterSearch(p, r0, built.es_query,
                      [i \in 1..Len(found) |->
                          [_id |-> found[i], _score |-> 200, _source |-> docs[found[i]]]],
                      Len(found))
    /\ UNCHANGED <<cache, insights, clock, nops, llm_calls, job_history>>

NextDrafts ==
    \E p \in Procs :
        \/ get_api_insights_index__search_v1(p)
        \/ elastic_search(p)
        \/ get_ai_summary_from_cache(p)
        \/ search_ai_summary_cache(p)
        \/ get_insights_summary(p)
        \/ cache_ai_summaries(p)
        \/ search_response(p)

SpecDrafts == InitDrafts /\ [][NextDrafts]_vars

\* the requester cdsid may see the insight: it is no draft, or the requester
\* is among its authors or its draft viewers or is its creator
MaySee(cdsid, doc) ==
    \/ ~doc.is_draft
    \/ cdsid \in Range(doc.authors_cdsid)
    \/ cdsid \in Range(doc.draft_viewers_cdsid)
    \/ cdsid = doc.created_by_cdsid

\* every insight returned to a requester is one the requester may see
ReturnsVisible ==
    \A p \in Procs :
        (Searched(p) /\ req[p].status = 200) =>
            \A i \in 1..Len(req[p].response.search_results.insights) :
                MaySee(req[p].cdsid, req[p].response.search_results.insights[i]._source)

\* a summary reused for a requester was generated from insights the requester
\* may see
ReusesVisible ==
    \A p, q \in Procs :
        (/\ Searched(p) /\ req[p].status = 200 /\ req[p].summarize_calls = 0
         /\ req[p].candidate # <<>>
         /\ req[q].op = "search" /\ req[q].summarize_calls = 1 /\ req[q].writes = 1
         /\ req[q].key = req[p].candidate[1]
         /\ req[p].response.summary.key = req[q].key)
          => \A i \in 1..Min(summarizing_length, Len(req[q].search_results)) :
                MaySee(req[p].cdsid, req[q].search_results[i]._source)

\* C39: every insight returned in the search results is not a draft or is a
\* draft whose authors, draft viewers or creator include the requester, and a
\* cached summary reused for a requester was generated only from insights
\* that satisfy this for that requester.
C39_DraftsStayPrivate == ReturnsVisible /\ ReusesVisible

====
